---- MODULE Spec2Model ----
EXTENDS Integers, Sequences, FiniteSets, TLC

(***************************************************************************)
(* Back-office of the two-phase event: identity resolution (App.tsx),      *)
(* phase-1 submission and scoring (PhaseOneForm, AdminDashboard),          *)
(* ranking (Scoreboard) and the notification fan-out (EmailDashboard,      *)
(* emailService).  Each component has its own specification over the       *)
(* variables it owns; the other variables stay at their initial value.     *)
(***************************************************************************)

VARIABLES
  \* ---- document store collections read by App.tsx
  users,            \* users/{uid}: profile document or NoDoc
  teams,            \* teams/{uid}: team document or NoDoc
  payments,         \* payments collection: set of payment records
  \* ---- App component state (App.tsx 36-42)
  isAuthenticated,
  isAdmin,
  isFinanceAdmin,
  currentUser,
  paymentStatus,
  loading,
  \* ---- identity provider and the onAuthStateChanged callbacks in flight
  principal,        \* the user of the most recent auth event (Null: signed out)
  eventCount,       \* number of auth events delivered so far
  inflight,         \* callbacks suspended at an await, oldest first
  lastDone,         \* record of the callback that completed most recently
  overlapped,       \* TRUE once an auth event arrived while a callback was in flight
  \* ---- EmailDashboard component state (EmailDashboard.tsx 20-31)
  dashTeams,        \* the `teams` list the dashboard fetched
  filterStatus,
  workshopDetails,
  sending,
  mailSuccess,      \* the success message: Null or its kind and counts
  mailError,
  \* ---- the notification batch in progress and the transport's record of it
  batch,            \* locals of the running handler, Null when none runs
  okSends,          \* recipients whose sendMail call succeeded in this batch
  failedSends,      \* recipients whose sendMail call was rejected in this batch
  attempted,        \* <<registrationId, member index>> of every sendMail call
  attached,         \* <<registrationId, member index, filename>> of every
                    \* attachment handed to sendEmail
  ticket,           \* the e-ticket being generated: its data and QR payload
  ticketFailures,   \* <<registrationId, member index>> of every rejected generateETicket
  batchCount,       \* number of batches started so far
  \* ---- document store collections of the submission and scoring workflow
  phase1,           \* phase1_submissions/{team id}: submission document or NoDoc
  config,           \* config/phase1Results: document or NoDoc
  \* ---- Scoreboard component state (Scoreboard.tsx 18-21)
  scores,
  sbLoading,
  resultsPublished,
  searchTerm,       \* the text of the search box, a sequence of characters
  sbFetch,          \* how fetchScores ended: "pending", "ok" or "failed"
  \* ---- PhaseOneForm component state, one entry per open session
  forms,            \* session -> [userId, initialLoading, isSubmitted, formData, file, error]
  \* ---- AdminDashboard component state (part_001 26-35)
  submissions,      \* the list fetchData stored last: id -> document
  adminLoading,
  adminError,
  adminSuccess,
  editingScore,     \* Null or [id |-> the submission being scored]
  scoreData,
  fetching,         \* number of fetchData calls that have not returned yet
  \* ---- the wall clock and the phase-2 collection
  now,              \* new Date().getTime(), in ms from the start of the model's time
  phase2,           \* phase2_submissions/{team id}
  \* ---- UserDashboard component state (Scoreboard.tsx 779-788)
  dash,             \* the mounted dashboard's state, Null when none is mounted
  countdowns,       \* number of countdown intervals that have not been cleared
  \* ---- file storage (firebase/storage)
  uploads           \* the paths under which a file has been stored

authVars == <<users, teams, payments, isAuthenticated, isAdmin, isFinanceAdmin,
              currentUser, paymentStatus, loading, principal, eventCount,
              inflight, lastDone, overlapped>>

mailVars == <<dashTeams, filterStatus, workshopDetails, sending, mailSuccess,
              mailError, batch, okSends, failedSends, attempted, attached,
              ticketFailures, batchCount, ticket>>

storeVars == <<phase1, config>>

boardVars == <<scores, sbLoading, resultsPublished, searchTerm, sbFetch>>

formVars == <<forms>>

adminVars == <<submissions, adminLoading, adminError, adminSuccess,
               editingScore, scoreData, fetching>>

dashVars == <<now, phase2, dash, countdowns>>

storageVars == <<uploads>>

vars == <<authVars, mailVars, storeVars, boardVars, formVars, adminVars, dashVars,
          storageVars>>

----------------------------------------------------------------------------
(* Generic helpers                                                         *)

\* JavaScript null / a missing Firestore document
Null == [null |-> TRUE]
NoDoc == [noDoc |-> TRUE]

\* object spread {...a, ...b}: the fields of b win
Merge(a, b) ==
  [k \in (DOMAIN a) \cup (DOMAIN b) |-> IF k \in DOMAIN b THEN b[k] ELSE a[k]]

\* obj.field, undefined ("") when the field is missing
Field(obj, k) == IF k \in DOMAIN obj THEN obj[k] ELSE ""

\* the files the stored submissions refer to: every one of them was uploaded
\* before its record was written
StoredFiles ==
  {phase1[id].fileUrl : id \in {i \in DOMAIN phase1 : "fileUrl" \in DOMAIN phase1[i]}}
  \cup {phase2[id].proposalUrl : id \in DOMAIN phase2}

----------------------------------------------------------------------------
(* Components at rest: the state of a component right after construction   *)

\* an empty submission store
IdleStore ==
  /\ phase1 = <<>>
  /\ config = NoDoc

\* Scoreboard.tsx 18-21
IdleBoard ==
  /\ scores = <<>>
  /\ sbLoading = TRUE
  /\ resultsPublished = FALSE
  /\ searchTerm = <<>>
  /\ sbFetch = "pending"

\* no PhaseOneForm session is open
IdleForm == forms = <<>>

\* part_001 26-39: the mounted AdminDashboard, its first fetchData pending
IdleAdmin ==
  /\ submissions = <<>>
  /\ adminLoading = TRUE
  /\ adminError = ""
  /\ adminSuccess = ""
  /\ editingScore = Null
  /\ scoreData = [points |-> 0, review |-> ""]
  /\ fetching = 1

\* the clock stands at the start of the model's time, nothing is stored for
\* phase 2 and no UserDashboard is mounted
IdleDash ==
  /\ now = 0
  /\ phase2 = <<>>
  /\ dash = Null
  /\ countdowns = 0

\* EmailDashboard.tsx 20-31
IdleBatch ==
  /\ dashTeams = <<>>
  /\ filterStatus = "all"
  /\ workshopDetails = [title |-> "", date |-> "", venue |-> ""]
  /\ sending = FALSE
  /\ mailSuccess = Null
  /\ mailError = ""
  /\ batch = Null
  /\ okSends = 0
  /\ failedSends = 0
  /\ attempted = {}
  /\ attached = {}
  /\ ticketFailures = {}
  /\ batchCount = 0

\* no batch has run and no e-ticket is being generated
IdleMail == IdleBatch /\ ticket = Null

----------------------------------------------------------------------------
(* Identity Resolver: App.tsx                                              *)

MaxEvents == 3

ADMIN_CREDENTIALS == [email |-> "admin@edcrec.com"]
ADMIN_2_CREDENTIALS == [email |-> "finance@edcrec.com"]

\* principals the identity provider can deliver; email "" is a principal
\* without an email address, displayName "" one without a display name
AdminUser == [uid |-> "ua", email |-> "admin@edcrec.com", displayName |-> "Admin"]
FinanceUser == [uid |-> "uf", email |-> "finance@edcrec.com", displayName |-> "Fin"]
Participant1 == [uid |-> "u1", email |-> "p1@x", displayName |-> "Pat"]
Participant2 == [uid |-> "u2", email |-> "", displayName |-> ""]
Participants == {Participant1, Participant2}
Principals == {AdminUser, FinanceUser} \cup Participants

\* profile documents a participant may have stored
Profiles(u) ==
  IF u = Participant1
  THEN {NoDoc, [name |-> "P1"], [name |-> "P1", email |-> "p1@x"],
        [name |-> "P1", email |-> "alt@x"]}
  ELSE {NoDoc, [name |-> "P2", email |-> "alt@x"]}

TeamDocs(u) ==
  IF u = Participant1
  THEN {NoDoc, [paymentStatus |-> "pending"], [paymentStatus |-> "paid"]}
  ELSE {NoDoc, [paymentStatus |-> "paid"]}

PaymentLogs ==
  {{[email |-> "p1@x", status |-> "pending"]} \cup S :
     S \in SUBSET {[email |-> "p1@x", status |-> "paid"],
                   [email |-> "alt@x", status |-> "paid"]}}

\* the minimal profile synthesized at App.tsx 74 and 109
MinimalProfile(user) ==
  [id |-> user.uid,
   name |-> IF user.displayName # "" THEN user.displayName ELSE "User"]

\* query(payments, where email == e, where status == 'paid')  (App.tsx 87-93)
PaidRecords(e) == {p \in payments : p.email = e /\ p.status = "paid"}

\* a team check that never short-circuits
TeamIsPaid_Never(teamDoc) == FALSE

\* teamData.paymentStatus === 'paid'  (App.tsx 81)
TeamIsPaid(teamDoc) == Field(teamDoc, "paymentStatus") = "paid"

\* userDoc.exists() ? userDoc.data().email : user.email  (App.tsx 84)
EmailToCheck(userDoc, user) ==
  IF userDoc # NoDoc THEN Field(userDoc, "email") ELSE user.email

\* the App component's state as one value
App ==
  [isAuthenticated |-> isAuthenticated, isAdmin |-> isAdmin,
   isFinanceAdmin |-> isFinanceAdmin, currentUser |-> currentUser,
   paymentStatus |-> paymentStatus, loading |-> loading]

SetApp(st) ==
  /\ isAuthenticated' = st.isAuthenticated
  /\ isAdmin' = st.isAdmin
  /\ isFinanceAdmin' = st.isFinanceAdmin
  /\ currentUser' = st.currentUser
  /\ paymentStatus' = st.paymentStatus
  /\ loading' = st.loading

\* App.tsx 112-118: user is null
ResolveSignedOut(st) ==
  [st EXCEPT !.isAuthenticated = FALSE, !.isAdmin = FALSE,
             !.isFinanceAdmin = FALSE, !.currentUser = Null, !.loading = FALSE]

\* an admin branch that leaves the finance flag as it is
ResolveAdmin_KeepFinance(st) ==
  [st EXCEPT !.isAdmin = TRUE, !.isAuthenticated = TRUE, !.currentUser = Null,
             !.loading = FALSE]

\* App.tsx 49-56
ResolveAdmin(st) ==
  [st EXCEPT !.isAdmin = TRUE, !.isFinanceAdmin = FALSE,
             !.isAuthenticated = TRUE, !.currentUser = Null, !.loading = FALSE]

\* App.tsx 59-66
ResolveFinance(st) ==
  [st EXCEPT !.isAdmin = FALSE, !.isFinanceAdmin = TRUE,
             !.isAuthenticated = TRUE, !.currentUser = Null, !.loading = FALSE]

\* App.tsx 46: setLoading(true) before the first await
StartResolve(st) == [st EXCEPT !.loading = TRUE]

\* App.tsx 71-75
AfterUserDoc(st, user, userDoc) ==
  [st EXCEPT !.currentUser =
     IF userDoc # NoDoc THEN Merge([id |-> user.uid], userDoc)
     ELSE MinimalProfile(user)]

\* App.tsx 104-106 and 118: the end of the try block
EndTry(st) ==
  [st EXCEPT !.isAuthenticated = TRUE, !.isAdmin = FALSE,
             !.isFinanceAdmin = FALSE, !.loading = FALSE]

\* a catch block after which the spinner is not taken down
Catch_KeepsLoading(st, user) ==
  [st EXCEPT !.currentUser = MinimalProfile(user), !.isAuthenticated = TRUE]

\* a catch block that treats the failed lookup as a sign-out
Catch_Abort(st, user) ==
  [st EXCEPT !.currentUser = Null, !.isAuthenticated = FALSE,
             !.loading = FALSE]

\* App.tsx 107-111 and 118: an await of the try block rejected
Catch(st, user) ==
  [st EXCEPT !.currentUser = MinimalProfile(user), !.isAuthenticated = TRUE,
             !.loading = FALSE]

\* App.tsx 79-102: what the callback does once the team document is read:
\* "paid" (line 82), "query" (lines 87-93) or "skip" (no payment status set)
TeamBranch(user, userDoc, teamDoc) ==
  IF teamDoc = NoDoc THEN "skip"
  ELSE IF TeamIsPaid(teamDoc) THEN "paid"
  ELSE IF EmailToCheck(userDoc, user) # "" THEN "query"
  ELSE "skip"

\* App.tsx 95-99
QueryStatus(user, userDoc) ==
  IF PaidRecords(EmailToCheck(userDoc, user)) # {} THEN "paid" ELSE "pending"

InitAuthState ==
  /\ isAuthenticated = FALSE
  /\ isAdmin = FALSE
  /\ isFinanceAdmin = FALSE
  /\ currentUser = Null
  /\ paymentStatus = "pending"
  /\ loading = TRUE
  /\ principal = Null
  /\ eventCount = 0
  /\ inflight = <<>>
  /\ lastDone = Null
  /\ overlapped = FALSE

InitAuth ==
  /\ users \in [{p.uid : p \in Participants} ->
                  UNION {Profiles(p) : p \in Participants}]
  /\ \A p \in Participants : users[p.uid] \in Profiles(p)
  /\ teams \in [{p.uid : p \in Participants} ->
                  UNION {TeamDocs(p) : p \in Participants}]
  /\ \A p \in Participants : teams[p.uid] \in TeamDocs(p)
  /\ payments \in PaymentLogs
  /\ InitAuthState
  /\ IdleMail /\ IdleStore /\ IdleBoard /\ IdleForm /\ IdleAdmin /\ IdleDash
  /\ uploads = StoredFiles

dbUnchanged ==
  UNCHANGED <<users, teams, payments, mailVars, storeVars, boardVars,
              formVars, adminVars, dashVars, storageVars>>

\* bookkeeping common to every delivered auth event
Deliver(user) ==
  /\ eventCount < MaxEvents
  /\ eventCount' = eventCount + 1
  /\ principal' = user
  /\ overlapped' = (overlapped \/ inflight # <<>>)

RemoveAt(s, i) == SubSeq(s, 1, i - 1) \o SubSeq(s, i + 1, Len(s))

\* what is remembered of a callback that ran to its end
Done(cb, failed) ==
  [user |-> cb.user, failed |-> failed, teamDoc |-> cb.teamDoc,
   queried |-> cb.queried, setPay |-> cb.setPay]

SignedOut ==
  /\ Deliver(Null)
  /\ SetApp(ResolveSignedOut(StartResolve(App)))
  /\ lastDone' = [user |-> Null, failed |-> FALSE]
  /\ UNCHANGED inflight
  /\ dbUnchanged

AdminSignedIn(user) ==
  /\ user.email = ADMIN_CREDENTIALS.email
  /\ Deliver(user)
  /\ SetApp(ResolveAdmin(StartResolve(App)))
  /\ lastDone' = [user |-> user, failed |-> FALSE]
  /\ UNCHANGED inflight
  /\ dbUnchanged

FinanceSignedIn(user) ==
  /\ user.email # ADMIN_CREDENTIALS.email
  /\ user.email = ADMIN_2_CREDENTIALS.email
  /\ Deliver(user)
  /\ SetApp(ResolveFinance(StartResolve(App)))
  /\ lastDone' = [user |-> user, failed |-> FALSE]
  /\ UNCHANGED inflight
  /\ dbUnchanged

\* App.tsx 46, 69-70: a regular user; the callback suspends at getDoc(users)
ParticipantSignedIn(user) ==
  /\ user.email # ADMIN_CREDENTIALS.email
  /\ user.email # ADMIN_2_CREDENTIALS.email
  /\ Deliver(user)
  /\ SetApp(StartResolve(App))
  /\ inflight' = Append(inflight,
       [user |-> user, pc |-> "userDoc", userDoc |-> NoDoc, teamDoc |-> NoDoc,
        queried |-> FALSE, setPay |-> "none"])
  /\ UNCHANGED lastDone
  /\ dbUnchanged

\* App.tsx 70-78: getDoc(users) resolved; the callback suspends at getDoc(teams)
UserDocLoaded(i) ==
  /\ i \in DOMAIN inflight
  /\ inflight[i].pc = "userDoc"
  /\ LET cb == inflight[i]
         userDoc == users[cb.user.uid]
     IN /\ SetApp(AfterUserDoc(App, cb.user, userDoc))
        /\ inflight' = [inflight EXCEPT ![i] =
                          [cb EXCEPT !.pc = "teamDoc", !.userDoc = userDoc]]
  /\ UNCHANGED <<principal, eventCount, lastDone, overlapped>>
  /\ dbUnchanged

\* App.tsx 78-106: getDoc(teams) resolved
TeamDocLoaded(i) ==
  /\ i \in DOMAIN inflight
  /\ inflight[i].pc = "teamDoc"
  /\ LET teamDoc == teams[inflight[i].user.uid]
         cb == [inflight[i] EXCEPT !.teamDoc = teamDoc]
         branch == TeamBranch(cb.user, cb.userDoc, teamDoc)
     IN CASE branch = "paid" ->
               /\ SetApp(EndTry([App EXCEPT !.paymentStatus = "paid"]))
               /\ inflight' = RemoveAt(inflight, i)
               /\ lastDone' = Done([cb EXCEPT !.setPay = "paid"], FALSE)
          [] branch = "query" ->
               \* suspend at getDocs(paymentsQuery)
               /\ inflight' = [inflight EXCEPT ![i] =
                                 [cb EXCEPT !.pc = "payments", !.queried = TRUE]]
               /\ UNCHANGED <<isAuthenticated, isAdmin, isFinanceAdmin,
                              currentUser, paymentStatus, loading, lastDone>>
          [] OTHER ->
               /\ SetApp(EndTry(App))
               /\ inflight' = RemoveAt(inflight, i)
               /\ lastDone' = Done(cb, FALSE)
  /\ UNCHANGED <<principal, eventCount, overlapped>>
  /\ dbUnchanged

\* App.tsx 93-106: getDocs(paymentsQuery) resolved
PaymentsLoaded(i) ==
  /\ i \in DOMAIN inflight
  /\ inflight[i].pc = "payments"
  /\ LET cb == inflight[i]
         status == QueryStatus(cb.user, cb.userDoc)
     IN /\ SetApp(EndTry([App EXCEPT !.paymentStatus = status]))
        /\ inflight' = RemoveAt(inflight, i)
        /\ lastDone' = Done([cb EXCEPT !.setPay = status], FALSE)
  /\ UNCHANGED <<principal, eventCount, overlapped>>
  /\ dbUnchanged

\* App.tsx 107-111: the pending getDoc / getDocs of callback i rejected
LookupFailed(i) ==
  /\ i \in DOMAIN inflight
  /\ SetApp(Catch(App, inflight[i].user))
  /\ inflight' = RemoveAt(inflight, i)
  /\ lastDone' = Done(inflight[i], TRUE)
  /\ UNCHANGED <<principal, eventCount, overlapped>>
  /\ dbUnchanged

NextAuth ==
  \/ SignedOut
  \/ \E user \in Principals : AdminSignedIn(user)
  \/ \E user \in Principals : FinanceSignedIn(user)
  \/ \E user \in Principals : ParticipantSignedIn(user)
  \/ \E i \in 1..MaxEvents : UserDocLoaded(i)
  \/ \E i \in 1..MaxEvents : TeamDocLoaded(i)
  \/ \E i \in 1..MaxEvents : PaymentsLoaded(i)
  \/ \E i \in 1..MaxEvents : LookupFailed(i)

\* The whole callback run without interruption from state st, the await named
\* by failAt rejecting ("none": every lookup succeeds).  App.tsx 45-119.
ResolveAlone(st, user, failAt) ==
  LET s0 == StartResolve(st) IN
  IF user = Null THEN ResolveSignedOut(s0)
  ELSE IF user.email = ADMIN_CREDENTIALS.email THEN ResolveAdmin(s0)
  ELSE IF user.email = ADMIN_2_CREDENTIALS.email THEN ResolveFinance(s0)
  ELSE IF failAt = "userDoc" THEN Catch(s0, user)
  ELSE LET userDoc == users[user.uid]
           s1 == AfterUserDoc(s0, user, userDoc)
       IN IF failAt = "teamDoc" THEN Catch(s1, user)
          ELSE LET branch == TeamBranch(user, userDoc, teams[user.uid])
               IN CASE branch = "paid" -> EndTry([s1 EXCEPT !.paymentStatus = "paid"])
                    [] branch = "query" ->
                         IF failAt = "payments" THEN Catch(s1, user)
                         ELSE EndTry([s1 EXCEPT !.paymentStatus =
                                                   QueryStatus(user, userDoc)])
                    [] OTHER -> EndTry(s1)

\* App.tsx 124-146 and 158-168: the view the App shows
renderAuthenticatedContent ==
  IF isAdmin THEN "AdminDashboard"
  ELSE IF isFinanceAdmin THEN "FinanceDashboard"
  ELSE IF currentUser = Null THEN "spinner"
  ELSE IF paymentStatus = "paid" THEN "UserDashboard"
  ELSE "TeamRegistration"

View ==
  IF loading THEN "spinner"
  ELSE IF isAuthenticated THEN renderAuthenticatedContent
  ELSE "landing"

----------------------------------------------------------------------------
(* Identity Resolver: properties                                           *)

\* every delivered auth event has been processed to its end
AllDone == eventCount > 0 /\ inflight = <<>>

\* the Team record stored for a participant says paid
StoredPaid(user) ==
  teams[user.uid] # NoDoc /\ Field(teams[user.uid], "paymentStatus") = "paid"

\* the payment chain of the design: team record first, then the payment log
\* for the profile's stored email if there is one, else the principal's email
PaymentChain(user) ==
  LET profile == users[user.uid]
      stored == IF profile # NoDoc THEN Field(profile, "email") ELSE ""
      email == IF stored # "" THEN stored ELSE user.email
  IN IF StoredPaid(user) THEN "paid"
     ELSE IF email # "" /\ \E p \in payments : p.email = email /\ p.status = "paid"
          THEN "paid"
     ELSE "pending"

\* C5: after a participant resolution whose lookups all succeeded (no other
\* callback overlapping), paymentStatus is the value of the ordered chain,
\* the log being consulted also when the participant has no Team record.
C5_PaymentChain ==
  (AllDone /\ ~overlapped /\ principal \in Participants /\ ~lastDone.failed)
    => paymentStatus = PaymentChain(principal)

\* C6: a resolution whose Team record says paid never issues the payment-log
\* query, sets the payment status to paid, and ends with paymentStatus = paid.
C6_PaidShortCircuit ==
  /\ \A i \in DOMAIN inflight :
       StoredPaid(inflight[i].user) =>
         ~inflight[i].queried /\ inflight[i].pc # "payments"
  /\ (lastDone # Null /\ lastDone.user \in Participants /\ StoredPaid(lastDone.user))
       => /\ ~lastDone.queried
          /\ ~lastDone.failed => lastDone.setPay = "paid"
  /\ (AllDone /\ ~overlapped /\ principal \in Participants
        /\ StoredPaid(principal) /\ ~lastDone.failed)
       => paymentStatus = "paid"

\* C6 witness: participant 1 resolved with a paid Team record while the log
\* holds no paid record for the email that would have been checked.
C6_Witness ==
  /\ AllDone /\ ~overlapped
  /\ principal = Participant1
  /\ StoredPaid(Participant1)
  /\ ~lastDone.failed
  /\ EmailToCheck(users["u1"], Participant1) = "p1@x"
  /\ PaidRecords("p1@x") = {}
  /\ lastDone.setPay = "paid"
  /\ paymentStatus = "paid"

\* C7: once every auth event has been processed without overlap, the role
\* flags are those of the current principal's email alone.
C7_RoleByEmail ==
  (AllDone /\ ~overlapped /\ principal # Null)
    => /\ isAdmin = (principal.email = ADMIN_CREDENTIALS.email)
       /\ isFinanceAdmin = (principal.email = ADMIN_2_CREDENTIALS.email)

\* the five fields the resolver decides
Resolved(st) ==
  [isAuthenticated |-> st.isAuthenticated, isAdmin |-> st.isAdmin,
   isFinanceAdmin |-> st.isFinanceAdmin, currentUser |-> st.currentUser,
   paymentStatus |-> st.paymentStatus]

CurrentUsers ==
  {Null} \cup {MinimalProfile(p) : p \in Participants}
         \cup UNION {{Merge([id |-> p.uid], d) : d \in Profiles(p) \ {NoDoc}} :
                       p \in Participants}

AppStates ==
  [isAuthenticated : BOOLEAN, isAdmin : BOOLEAN, isFinanceAdmin : BOOLEAN,
   currentUser : CurrentUsers, paymentStatus : {"pending", "paid"},
   loading : BOOLEAN]

\* the states that resolving one auth event alone can end in
SoloResults(user) ==
  {Resolved(ResolveAlone(st, user, failAt)) :
     st \in AppStates, failAt \in {"none", "userDoc", "teamDoc", "payments"}}

\* C8: whatever the interleaving of overlapping callbacks, once all of them
\* have finished the state is one that resolving the most recent auth event
\* alone produces.
C8_LastEventWins == AllDone => Resolved(App) \in SoloResults(principal)

\* C9: the admin view, from which handleScoreSubmit and publishResults are
\* invoked, is shown only while the signed-in principal is the platform admin.
C9_AdminOnly ==
  View = "AdminDashboard"
    => principal # Null /\ principal.email = ADMIN_CREDENTIALS.email

SpecAuth == InitAuth /\ [][NextAuth]_vars


\* C29: when the profile, team or payment lookup of a participant's callback
\* rejects, the callback ends with isAuthenticated true, currentUser the
\* minimal profile {id, name: displayName or 'User'} of that callback's
\* principal and loading false
C29_LookupFailureKeepsSession ==
  [][\A i \in 1..MaxEvents :
       LookupFailed(i) =>
         /\ isAuthenticated'
         /\ currentUser' = [id |-> inflight[i].user.uid,
                            name |-> IF inflight[i].user.displayName # ""
                                     THEN inflight[i].user.displayName
                                     ELSE "User"]
         /\ ~loading']_vars

\* the payments query of the only callback rejected after the stored profile
\* had been shown, and the minimal profile has replaced it
C29_Witness ==
  /\ lastDone # Null /\ lastDone.user = Participant1
  /\ lastDone.failed /\ lastDone.queried
  /\ ~overlapped /\ inflight = <<>>
  /\ isAuthenticated /\ ~loading
  /\ users["u1"] # NoDoc
  /\ currentUser = [id |-> "u1", name |-> "Pat"]


\* neither the Team record nor the payment log, under the profile's email or
\* the principal's, says that the participant has paid
NeverPaid(user) ==
  /\ ~StoredPaid(user)
  /\ user.email # "" => PaidRecords(user.email) = {}
  /\ users[user.uid] # NoDoc /\ Field(users[user.uid], "email") # ""
       => PaidRecords(Field(users[user.uid], "email")) = {}

\* C33: after every sequence of sign-ins and sign-outs, a participant who has
\* no paid Team record and no paid Payment record, and whose lookups all
\* succeeded, is resolved as pending and is not shown the UserDashboard.
C33_StatusFromOwnData ==
  (AllDone /\ ~overlapped /\ principal \in Participants /\ ~lastDone.failed
     /\ NeverPaid(principal))
    => paymentStatus = "pending" /\ View # "UserDashboard"

\* C33 failing input: participant 2, without Team record and without email,
\* resolved after paid participant 1 and a sign-out, is shown the UserDashboard
C33_Witness ==
  /\ AllDone /\ ~overlapped /\ principal = Participant2 /\ ~lastDone.failed
  /\ NeverPaid(Participant2) /\ teams["u2"] = NoDoc
  /\ eventCount = 3
  /\ paymentStatus = "paid" /\ View = "UserDashboard"


\* C36: in every reachable state, under every sequence and interleaving of
\* auth-state callbacks, isAdmin and isFinanceAdmin are not both true, and
\* isAdmin or isFinanceAdmin true implies isAuthenticated true.
C36_RoleFlagsConsistent ==
  /\ ~(isAdmin /\ isFinanceAdmin)
  /\ (isAdmin \/ isFinanceAdmin) => isAuthenticated

\* C36 witness: the admin signed in as the third event while the callback of a
\* participant was in flight; that callback has since failed and the flags
\* are those of the admin
C36_Witness ==
  /\ eventCount = 3 /\ overlapped /\ inflight = <<>>
  /\ principal = AdminUser
  /\ lastDone.user \in Participants /\ lastDone.failed
  /\ isAdmin /\ ~isFinanceAdmin /\ isAuthenticated


\* a pending getDoc / getDocs of some callback resolves or rejects
LookupReturns ==
  \E i \in 1..MaxEvents :
     UserDocLoaded(i) \/ TeamDocLoaded(i) \/ PaymentsLoaded(i) \/ LookupFailed(i)

\* the resolver over the stores in which participant 1 has a profile with an
\* email and the payment log holds a paid record for it
InitResolve ==
  /\ users = [u1 |-> [name |-> "P1", email |-> "p1@x"], u2 |-> NoDoc]
  /\ teams \in [{p.uid : p \in Participants} ->
                  UNION {TeamDocs(p) : p \in Participants}]
  /\ \A p \in Participants : teams[p.uid] \in TeamDocs(p)
  /\ payments = {[email |-> "p1@x", status |-> "pending"],
                 [email |-> "p1@x", status |-> "paid"]}
  /\ InitAuthState
  /\ IdleMail /\ IdleStore /\ IdleBoard /\ IdleForm /\ IdleAdmin /\ IdleDash
  /\ uploads = StoredFiles

\* every store call eventually returns or fails
SpecResolve == InitResolve /\ [][NextAuth]_vars /\ WF_vars(LookupReturns)

\* C37: provided each store call eventually returns or fails, every callback
\* in flight terminates, and whenever no callback is in flight after an auth
\* event loading is false.
C37_LoadingEnds ==
  /\ [](AllDone => ~loading)
  /\ (inflight # <<>>) ~> (inflight = <<>> /\ ~loading)

\* C37 witness: a sign-out arrived while the callback of a participant was in
\* flight; that callback has ended, on a lookup error, and the spinner is down
C37_Witness ==
  /\ eventCount = 2 /\ principal = Null
  /\ overlapped /\ inflight = <<>>
  /\ lastDone.user \in Participants /\ lastDone.failed
  /\ ~loading

----------------------------------------------------------------------------
(* Notification Fan-out: EmailDashboard.tsx and emailService                *)

MaxMembers == 3
MaxBatches == 1

MailTeamOrder == <<"t1", "t2">>
MailTeamIds == {MailTeamOrder[i] : i \in DOMAIN MailTeamOrder}

Member(id, j) == [name |-> <<id, j>>, email |-> <<id, j, "mail">>, phone |-> "0"]

\* team documents as the dashboard reads them; `members` and `phase2Selected`
\* may be missing from a document
MailTeamDocs(id) ==
  LET base == [teamName |-> <<"team", id>>, registrationId |-> <<"reg", id>>]
      withMembers ==
        {base} \cup {Merge(base, [members |-> [j \in 1..n |-> Member(id, j)]]) :
                       n \in 0..MaxMembers}
  IN withMembers \cup {Merge(d, [phase2Selected |-> b]) :
                         d \in withMembers, b \in BOOLEAN}

\* team.phase2Selected as a condition (missing is falsy)
IsSelected(team) ==
  IF "phase2Selected" \in DOMAIN team THEN team.phase2Selected ELSE FALSE

HasMembers(team) == "members" \in DOMAIN team

WorkshopTexts == {"", "w"}

\* getDocs(query(collection(db, 'teams'))): the documents in id order, each
\* with its id (EmailDashboard.tsx 40-45)
AllTeamDocs ==
  [i \in 1..Len(MailTeamOrder) |->
     Merge(teams[MailTeamOrder[i]], [id |-> MailTeamOrder[i]])]

\* EmailDashboard.tsx 37-68: fetchTeams, run on mount and on every filter change.
\* The inputs of the dashboard are explored while a batch can still start and
\* none is running: a running handler works on the values it captured.
FetchedTeams(status) ==
  LET all == AllTeamDocs
      Keep(team) ==
        status = "all" \/ (IF status = "selected" THEN IsSelected(team)
                           ELSE ~IsSelected(team))
  IN SelectSeq(all, Keep)

mailStoreUnchanged ==
  UNCHANGED <<users, teams, payments, storeVars, boardVars, formVars, adminVars,
              dashVars, storageVars>>
appUnchanged ==
  UNCHANGED <<isAuthenticated, isAdmin, isFinanceAdmin, currentUser, paymentStatus,
              loading, principal, eventCount, inflight, lastDone, overlapped>>

fetchTeams(status) ==
  /\ ~sending /\ batchCount < MaxBatches
  /\ filterStatus' = status
  /\ dashTeams' = FetchedTeams(status)
  /\ UNCHANGED <<workshopDetails, sending, mailSuccess, mailError, batch, okSends,
                 failedSends, attempted, attached, ticket, ticketFailures, batchCount>>
  /\ mailStoreUnchanged /\ appUnchanged

\* EmailDashboard.tsx 169-188: the three workshop fields
setWorkshopDetails(field, text) ==
  /\ ~sending /\ batchCount < MaxBatches
  /\ workshopDetails' = [workshopDetails EXCEPT ![field] = text]
  /\ UNCHANGED <<dashTeams, filterStatus, sending, mailSuccess, mailError, batch,
                 okSends, failedSends, attempted, attached, ticket, ticketFailures, batchCount>>
  /\ mailStoreUnchanged /\ appUnchanged

NewBatch(kind, list) ==
  [kind |-> kind, list |-> list, details |-> workshopDetails, t |-> 1, m |-> 1,
   successCount |-> 0, failCount |-> 0]

\* a validation that looks at the title only
DetailsMissing_TitleOnly(details) == details.title = ""

\* !workshopDetails.title || !workshopDetails.date || !workshopDetails.venue
\* (EmailDashboard.tsx 71)
DetailsMissing(details) ==
  details.title = "" \/ details.date = "" \/ details.venue = ""

\* EmailDashboard.tsx 70-79: the handler up to its first await
handleSendWorkshopInvites ==
  /\ ~sending
  /\ IF DetailsMissing(workshopDetails)
     THEN /\ mailError' = "Please fill in all workshop details"
          /\ UNCHANGED <<sending, batch, okSends, failedSends, attempted, attached, ticket,
                         ticketFailures, batchCount>>
     ELSE /\ batchCount < MaxBatches
          /\ batchCount' = batchCount + 1
          /\ sending' = TRUE
          /\ batch' = NewBatch("workshop", dashTeams)
          /\ okSends' = 0 /\ failedSends' = 0 /\ attempted' = {} /\ ticketFailures' = {}
          /\ attached' = {}
          /\ UNCHANGED ticket
          /\ UNCHANGED mailError
  /\ UNCHANGED <<dashTeams, filterStatus, workshopDetails, mailSuccess>>
  /\ mailStoreUnchanged /\ appUnchanged

\* a batch list that takes every fetched team
SelectedTeams_All(list) == list

\* teams.filter(team => team.phase2Selected)  (EmailDashboard.tsx 105)
SelectedTeams(list) == SelectSeq(list, IsSelected)

\* EmailDashboard.tsx 99-105
handleSendPhase2Selections ==
  /\ ~sending
  /\ batchCount < MaxBatches
  /\ batchCount' = batchCount + 1
  /\ sending' = TRUE
  /\ batch' = NewBatch("phase2", SelectedTeams(dashTeams))
  /\ okSends' = 0 /\ failedSends' = 0 /\ attempted' = {} /\ ticketFailures' = {}
  /\ attached' = {}
  /\ UNCHANGED ticket
  /\ UNCHANGED <<dashTeams, filterStatus, workshopDetails, mailSuccess, mailError>>
  /\ mailStoreUnchanged /\ appUnchanged

\* the handler's counters after sendWorkshopInvite / sendPhase2Selection
\* returned `success` for the current team (EmailDashboard.tsx 82-87, 108-113)
TeamReturned(b, success) ==
  [b EXCEPT !.t = b.t + 1, !.m = 1,
            !.successCount = IF success THEN b.successCount + 1 ELSE b.successCount,
            !.failCount = IF success THEN b.failCount ELSE b.failCount + 1]

\* emailService 105-141 / 157-180: the loop over the members went through
\* member b.m; after the last member the function returns true
MemberHandled(b) ==
  IF b.m = Len(b.list[b.t].members) THEN TeamReturned(b, TRUE)
  ELSE [b EXCEPT !.m = b.m + 1]

\* the attachments argument of sendEmail: the e-ticket for a workshop invite
\* (emailService 134-139), none for a phase-2 selection (emailService 174-178)
Attachments(kind) == IF kind = "workshop" THEN {"e-ticket.pdf"} ELSE {}

Attached(team, m, kind) ==
  {<<team.registrationId, m, filename>> : filename \in Attachments(kind)}

\* one turn of `for (const member of teamData.members)`: generateETicket
\* (workshop invites only) and sendEmail, whose result is dropped
\*   "sent":   transporter.sendMail resolved, sendEmail returns true
\*   "failed": transporter.sendMail rejected, sendEmail returns false
\*   "ticket": generateETicket rejected, sendWorkshopInvite returns false
SendToMember(outcome) ==
  /\ batch # Null
  /\ batch.t <= Len(batch.list)
  /\ HasMembers(batch.list[batch.t])
  /\ batch.m <= Len(batch.list[batch.t].members)
  /\ outcome = "ticket" => batch.kind = "workshop"
  /\ LET team == batch.list[batch.t]
     IN CASE outcome = "sent" ->
               /\ okSends' = okSends + 1
               /\ attempted' = attempted \cup {<<team.registrationId, batch.m>>}
               /\ attached' = attached \cup Attached(team, batch.m, batch.kind)
               /\ batch' = MemberHandled(batch)
               /\ UNCHANGED <<failedSends, ticketFailures>>
          [] outcome = "failed" ->
               /\ failedSends' = failedSends + 1
               /\ attempted' = attempted \cup {<<team.registrationId, batch.m>>}
               /\ attached' = attached \cup Attached(team, batch.m, batch.kind)
               /\ batch' = MemberHandled(batch)
               /\ UNCHANGED <<okSends, ticketFailures>>
          [] OTHER ->
               /\ ticketFailures' =
                    ticketFailures \cup {<<team.registrationId, batch.m>>}
               /\ batch' = TeamReturned(batch, FALSE)
               /\ UNCHANGED <<okSends, failedSends, attempted, attached>>
  /\ UNCHANGED <<dashTeams, filterStatus, workshopDetails, sending, mailSuccess,
                 mailError, batchCount, ticket>>
  /\ mailStoreUnchanged /\ appUnchanged

\* a team whose loop body never runs: `members` is missing (the iteration
\* throws, caught at emailService 142 / 181: false) or empty (true)
SendToTeamWithoutMembers ==
  /\ batch # Null
  /\ batch.t <= Len(batch.list)
  /\ LET team == batch.list[batch.t]
     IN /\ IF HasMembers(team) THEN Len(team.members) = 0 ELSE TRUE
        /\ batch' = TeamReturned(batch, HasMembers(team))
  /\ UNCHANGED <<dashTeams, filterStatus, workshopDetails, sending, mailSuccess,
                 mailError, okSends, failedSends, attempted, attached, ticket, ticketFailures,
                 batchCount>>
  /\ mailStoreUnchanged /\ appUnchanged

\* EmailDashboard.tsx 90, 94-96 / 116, 120-122: the loop over the teams ended
BatchFinished ==
  /\ batch # Null
  /\ batch.t > Len(batch.list)
  /\ mailSuccess' = [kind |-> batch.kind, successCount |-> batch.successCount,
                     failCount |-> batch.failCount]
  /\ sending' = FALSE
  /\ batch' = Null
  /\ UNCHANGED <<dashTeams, filterStatus, workshopDetails, mailError, okSends,
                 failedSends, attempted, attached, ticket, ticketFailures, batchCount>>
  /\ mailStoreUnchanged /\ appUnchanged

InitMail ==
  /\ users = <<>>
  /\ payments = {}
  /\ teams \in [MailTeamIds -> UNION {MailTeamDocs(id) : id \in MailTeamIds}]
  /\ \A id \in MailTeamIds : teams[id] \in MailTeamDocs(id)
  /\ InitAuthState
  /\ IdleMail /\ IdleStore /\ IdleBoard /\ IdleForm /\ IdleAdmin /\ IdleDash
  /\ uploads = StoredFiles

NextMail ==
  \/ \E status \in {"all", "selected", "pending"} : fetchTeams(status)
  \/ \E field \in {"title", "date", "venue"}, text \in WorkshopTexts :
       setWorkshopDetails(field, text)
  \/ handleSendWorkshopInvites
  \/ handleSendPhase2Selections
  \/ \E outcome \in {"sent", "failed", "ticket"} : SendToMember(outcome)
  \/ SendToTeamWithoutMembers
  \/ BatchFinished

----------------------------------------------------------------------------
(* Notification Fan-out: properties                                        *)

\* a batch has run to its end and its message is on display
BatchReported == ~sending /\ batchCount > 0 /\ mailSuccess # Null

\* C10: the counts a finished batch reports are the number of recipients whose
\* send succeeded and the number whose send failed.
C10_CountsRecipients ==
  BatchReported
    => /\ mailSuccess.successCount = okSends
       /\ mailSuccess.failCount = failedSends

\* C10 failing input: one team of 3 members, the transport failing for exactly
\* one of them, reported as 1 sent and none failed.
C10_Witness ==
  /\ BatchReported
  /\ Len(dashTeams) = 1
  /\ HasMembers(dashTeams[1]) /\ Len(dashTeams[1].members) = 3
  /\ Cardinality(attempted) = 3
  /\ okSends = 2 /\ failedSends = 1
  /\ mailSuccess.successCount = 1 /\ mailSuccess.failCount = 0

\* the loop over the teams of the running batch has ended
TeamsDone == batch # Null /\ batch.t > Len(batch.list)

\* the members of the batch: <<registrationId, member index>>
BatchMembers ==
  UNION {{<<batch.list[i].registrationId, j>> :
            j \in 1..Len(batch.list[i].members)} :
         i \in {i \in 1..Len(batch.list) : HasMembers(batch.list[i])}}

TopLevelErrors == {"Failed to send invites", "Failed to send selection emails"}

\* C11: a failure while handling one member (ticket generation or transport
\* send) never prevents a send from being attempted for every other member of
\* the batch, and never puts the dashboard into the batch-level error state.
C11_MemberIsolation ==
  TeamsDone => /\ BatchMembers \subseteq attempted \cup ticketFailures
               /\ mailError \notin TopLevelErrors

\* C11 witness: a workshop batch over a team of three ends after the ticket of
\* the first member failed, no send having been attempted for the other two
C11_Witness ==
  /\ TeamsDone /\ batch.kind = "workshop" /\ Len(batch.list) = 1
  /\ Cardinality(BatchMembers) = 3
  /\ ticketFailures = {<<batch.list[1].registrationId, 1>>}
  /\ attempted = {}

\* a batch has run to its end
BatchOver == ~sending /\ batch = Null /\ batchCount > 0

\* the transport rejected every send of the batch, and there was at least one
AllSendsFailed == failedSends > 0 /\ okSends = 0 /\ ticketFailures = {}

\* C12: when the transport fails for every recipient of a batch, the dashboard
\* ends in the top-level error state and does not report the batch as sent.
C12_TransportDownIsTopLevelError ==
  BatchOver /\ AllSendsFailed
    => mailError \in TopLevelErrors /\ mailSuccess = Null

\* C12 witness: every one of the three sends of a batch was rejected, and the
\* dashboard shows "Successfully sent 1 invites" and no error
C12_Witness ==
  /\ BatchOver /\ AllSendsFailed
  /\ failedSends = 3 /\ Cardinality(attempted) = 3
  /\ mailSuccess # Null
  /\ mailSuccess.successCount = 1 /\ mailSuccess.failCount = 0
  /\ mailError = ""

SpecMail == InitMail /\ [][NextMail]_vars

----------------------------------------------------------------------------
(* Ticket Generator: generateETicket (emailService 31-69)                  *)

MaxText == 1

\* the characters a text is made of: a letter, the double quote and the
\* backslash
TextChars == {"a", "\"", "\\"}

RECURSIVE Texts(_)
Texts(n) ==
  IF n = 0 THEN {<<>>}
  ELSE LET shorter == Texts(n - 1)
       IN shorter \cup {Append(t, c) : t \in shorter, c \in TextChars}

\* ETicketData (emailService 20-29), reduced to the fields of the payload
TicketInputs ==
  [registrationId : Texts(MaxText), teamName : Texts(MaxText),
   member : [name : Texts(MaxText)]]

\* a JSON string body that copies every character as it is
Escape_None(text) == text

\* JSON.stringify of the characters of a string: the double quote and the
\* backslash are preceded by a backslash
RECURSIVE Escape(_)
Escape(text) ==
  IF text = <<>> THEN <<>>
  ELSE (IF Head(text) \in {"\"", "\\"} THEN <<"\\", Head(text)>>
        ELSE <<Head(text)>>) \o Escape(Tail(text))

\* JSON.stringify of a string
Quoted(text) == <<"\"">> \o Escape(text) \o <<"\"">>

KeyRegId == <<"r", "e", "g", "I", "d">>
KeyName == <<"n", "a", "m", "e">>
KeyTeam == <<"t", "e", "a", "m">>

\* JSON.stringify({regId, name, team})  (emailService 39-43)
qrData(data) ==
  <<"{">> \o <<"\"">> \o KeyRegId \o <<"\"", ":">> \o Quoted(data.registrationId)
    \o <<",", "\"">> \o KeyName \o <<"\"", ":">> \o Quoted(data.member.name)
    \o <<",", "\"">> \o KeyTeam \o <<"\"", ":">> \o Quoted(data.teamName)
    \o <<"}">>

\* generateETicket: the payload is serialized (lines 39-43), then
\* QRCode.toDataURL is awaited (line 45); outcome "qrFailed" is its rejection,
\* "ok" the PDF returned at line 68
generateETicket(outcome) ==
  /\ ticket # Null
  /\ ticket.state = "pending"
  /\ ticket' = [ticket EXCEPT !.qrData = qrData(ticket.data),
                              !.state = IF outcome = "ok" THEN "pdf" ELSE "rejected"]
  /\ UNCHANGED <<dashTeams, filterStatus, workshopDetails, sending, mailSuccess,
                 mailError, batch, okSends, failedSends, attempted, attached,
                 ticketFailures, batchCount>>
  /\ mailStoreUnchanged /\ appUnchanged

InitTicket ==
  /\ users = <<>> /\ teams = <<>> /\ payments = {}
  /\ InitAuthState
  /\ IdleBatch /\ IdleStore /\ IdleBoard /\ IdleForm /\ IdleAdmin /\ IdleDash
  /\ uploads = StoredFiles
  /\ \E data \in TicketInputs :
       ticket = [data |-> data, qrData |-> <<>>, state |-> "pending"]

NextTicket == \E outcome \in {"ok", "qrFailed"} : generateETicket(outcome)

SpecTicket == InitTicket /\ [][NextTicket]_vars

\* what a scanner does with the payload: JSON.parse of an object whose
\* values are strings.  ReadString reads a string body from position i up to
\* its closing quote; ReadMembers reads "key":"value" pairs up to the brace.
Malformed == [ok |-> FALSE]

RECURSIVE ReadString(_, _, _)
ReadString(s, i, acc) ==
  IF i > Len(s) THEN Malformed
  ELSE IF s[i] = "\"" THEN [ok |-> TRUE, value |-> acc, next |-> i + 1]
  ELSE IF s[i] = "\\"
       THEN IF i + 1 > Len(s) THEN Malformed
            ELSE ReadString(s, i + 2, Append(acc, s[i + 1]))
  ELSE ReadString(s, i + 1, Append(acc, s[i]))

RECURSIVE ReadMembers(_, _, _)
ReadMembers(s, i, members) ==
  IF i > Len(s) \/ s[i] # "\"" THEN Malformed
  ELSE LET key == ReadString(s, i + 1, <<>>)
       IN IF ~key.ok THEN Malformed
          ELSE IF key.next + 1 > Len(s) \/ s[key.next] # ":"
                  \/ s[key.next + 1] # "\"" THEN Malformed
          ELSE LET val == ReadString(s, key.next + 2, <<>>)
               IN IF ~val.ok \/ val.next > Len(s) THEN Malformed
                  ELSE LET all == members \cup {<<key.value, val.value>>}
                       IN IF s[val.next] = "}"
                          THEN IF val.next = Len(s)
                               THEN [ok |-> TRUE, members |-> all]
                               ELSE Malformed
                          ELSE IF s[val.next] = ","
                          THEN ReadMembers(s, val.next + 1, all)
                          ELSE Malformed

JSONparse(s) ==
  IF s # <<>> /\ Head(s) = "{" THEN ReadMembers(s, 2, {}) ELSE Malformed

\* the payload decodes to exactly the three values of data under the keys
\* regId, name and team
DecodesTo(payload, data) ==
  LET parsed == JSONparse(payload)
  IN /\ parsed.ok
     /\ parsed.members = {<<KeyRegId, data.registrationId>>,
                          <<KeyName, data.member.name>>,
                          <<KeyTeam, data.teamName>>}

\* every ticket input with its payload
AllPayloads == {<<data, qrData(data)>> : data \in TicketInputs}

\* C32: the payload generateETicket serializes into the QR code decodes to
\* exactly the registrationId, member name and team name it was generated
\* from, and no other triple has the same payload.
C32_PayloadRoundTrip ==
  (ticket # Null /\ ticket.state # "pending")
    => /\ DecodesTo(ticket.qrData, ticket.data)
       /\ \A other \in AllPayloads :
            other[2] = ticket.qrData => other[1] = ticket.data

\* C32 witness: a ticket was generated for a member whose name is a double
\* quote and a team whose name is a backslash
C32_Witness ==
  /\ ticket # Null /\ ticket.state = "pdf"
  /\ ticket.data.member.name = <<"\"">>
  /\ ticket.data.teamName = <<"\\">>
  /\ ticket.data.registrationId = <<"a">>
  /\ DecodesTo(ticket.qrData, ticket.data)


\* a phase-2 selection batch is running or was the last batch to run
Phase2Batch ==
  IF batch # Null THEN batch.kind = "phase2"
  ELSE batchCount > 0 /\ mailSuccess # Null /\ mailSuccess.kind = "phase2"

\* the stored team document has phase2Selected false or lacks the field
NotSelected(id) ==
  "phase2Selected" \notin DOMAIN teams[id] \/ ~teams[id].phase2Selected

\* C30: a phase-2 selection batch issues no send to any member of a team whose
\* phase2Selected flag is false or absent, and none of its messages carries an
\* attachment.
C30_OnlySelectedTeamsNoAttachment ==
  Phase2Batch
    => /\ \A id \in MailTeamIds :
            NotSelected(id)
              => \A j \in 1..MaxMembers :
                   <<teams[id].registrationId, j>> \notin attempted
       /\ attached = {}

\* C30 witness: with the filter on "all", a finished phase-2 batch over a
\* selected team of two and an unselected team with members sent to the two
\* members of the selected team only
C30_Witness ==
  /\ Phase2Batch /\ batch = Null
  /\ Len(dashTeams) = 2
  /\ ~NotSelected("t1") /\ NotSelected("t2")
  /\ HasMembers(teams["t2"]) /\ Len(teams["t2"].members) > 0
  /\ attempted = {<<teams["t1"].registrationId, 1>>,
                  <<teams["t1"].registrationId, 2>>}


\* the running handler moves on: a member is handled, a team without members
\* is passed, or the loop over the teams ends
BatchProgress ==
  \/ \E outcome \in {"sent", "failed", "ticket"} : SendToMember(outcome)
  \/ SendToTeamWithoutMembers
  \/ BatchFinished

\* the dashboard over a selected team t2 of one member and every kind of
\* team document for t1
InitSend ==
  /\ users = <<>>
  /\ payments = {}
  /\ teams \in [MailTeamIds -> UNION {MailTeamDocs(id) : id \in MailTeamIds}]
  /\ teams["t1"] \in MailTeamDocs("t1")
  /\ teams["t2"] = [teamName |-> <<"team", "t2">>,
                    registrationId |-> <<"reg", "t2">>,
                    members |-> <<Member("t2", 1)>>, phase2Selected |-> TRUE]
  /\ InitAuthState
  /\ IdleMail /\ IdleStore /\ IdleBoard /\ IdleForm /\ IdleAdmin /\ IdleDash
  /\ uploads = StoredFiles

\* every send and every ticket generation eventually returns
SpecSend == InitSend /\ [][NextMail]_vars /\ WF_vars(BatchProgress)

\* one of the three workshop fields is empty
SomeDetailEmpty ==
  workshopDetails.title = "" \/ workshopDetails.date = ""
    \/ workshopDetails.venue = ""

\* C38: provided each send eventually returns, every batch that was started
\* ends with sending false and a success message with the counts or an error
\* message on display; a workshop-invite request made while the title, date
\* or venue is empty starts no batch and issues no send.
C38_BatchEnds ==
  /\ sending ~> (~sending /\ (mailSuccess # Null \/ mailError # ""))
  /\ [][(SomeDetailEmpty /\ handleSendWorkshopInvites)
          => /\ ~sending' /\ batch' = Null
             /\ attempted' = attempted /\ ticketFailures' = ticketFailures
             /\ mailError' # ""]_vars
  /\ [](batch # Null /\ batch.kind = "workshop"
          => batch.details.title # "" /\ batch.details.date # ""
               /\ batch.details.venue # "")

\* C38 witness: a workshop batch over two teams has ended with one team
\* reported as sent and one as failed, after an earlier request with an empty
\* field was refused
C38_Witness ==
  /\ ~sending /\ batch = Null /\ batchCount > 0
  /\ mailSuccess # Null /\ mailSuccess.kind = "workshop"
  /\ mailSuccess.successCount = 1 /\ mailSuccess.failCount = 1
  /\ mailError = "Please fill in all workshop details"

----------------------------------------------------------------------------
(* Ranking Engine: Scoreboard.tsx                                          *)

NumRankTeams == 6

RankTeams == 1..NumRankTeams
RankPoints == {70, 80, 90}

\* a submission document of team t, unscored
Submission(t) ==
  [teamName |-> <<"team", t>>, registrationId |-> <<"reg", t>>,
   collegeName |-> <<"college", t>>]

HasPoints(d) == d # NoDoc /\ "points" \in DOMAIN d

\* query(collection, orderBy('points', 'desc')): the documents that have the
\* field, highest points first, equal points in descending id order
RECURSIVE OrderByPointsDesc(_)
OrderByPointsDesc(ids) ==
  IF ids = {} THEN <<>>
  ELSE LET first == CHOOSE i \in ids : \A k \in ids :
                      \/ phase1[i].points > phase1[k].points
                      \/ phase1[i].points = phase1[k].points /\ i >= k
       IN <<first>> \o OrderByPointsDesc(ids \ {first})

\* Scoreboard.tsx 42-50: filter and map, every entry starting with rank 1
ScoresData(docIds) ==
  LET kept == SelectSeq(docIds, LAMBDA t : HasPoints(phase1[t]))
  IN [i \in 1..Len(kept) |->
        Merge(Merge([id |-> kept[i]], phase1[kept[i]]),
              [rank |-> 1, score |-> phase1[kept[i]].points])]

\* a ranking that numbers the distinct scores 1, 2, 3, ...
RECURSIVE AssignRanks_Dense(_, _)
AssignRanks_Dense(data, k) ==
  IF k > Len(data) THEN data
  ELSE AssignRanks_Dense(
         [data EXCEPT ![k].rank =
            IF data[k].score = data[k - 1].score THEN data[k - 1].rank
            ELSE data[k - 1].rank + 1],
         k + 1)

\* Scoreboard.tsx 53-59: the loop from the second entry on; entry k of the
\* sequence is scoresData[k - 1] of the code, so `i + 1` is k
RECURSIVE AssignRanks(_, _)
AssignRanks(data, k) ==
  IF k > Len(data) THEN data
  ELSE AssignRanks(
         [data EXCEPT ![k].rank =
            IF data[k].score = data[k - 1].score THEN data[k - 1].rank
            ELSE k],
         k + 1)

\* resultsConfig?.data()?.published  (Scoreboard.tsx 30-32)
IsPublished_Always(configDoc) == TRUE

IsPublished(configDoc) ==
  configDoc # NoDoc /\ "published" \in DOMAIN configDoc /\ configDoc.published

rankOthersUnchanged ==
  UNCHANGED <<authVars, mailVars, storeVars, formVars, adminVars, dashVars,
              storageVars>>

\* Scoreboard.tsx 24-68: fetchScores, run once on mount.  outcome names the
\* getDocs call that rejects, "ok" when none does.
fetchScores(outcome) ==
  /\ sbFetch = "pending"
  /\ sbLoading' = FALSE
  /\ CASE outcome = "configFailed" ->
            /\ sbFetch' = "failed"
            /\ UNCHANGED <<scores, resultsPublished>>
       [] ~IsPublished(config) ->
            /\ outcome = "ok"
            /\ sbFetch' = "ok"
            /\ UNCHANGED <<scores, resultsPublished>>
       [] outcome = "queryFailed" ->
            /\ resultsPublished' = TRUE
            /\ sbFetch' = "failed"
            /\ UNCHANGED scores
       [] OTHER ->
            /\ resultsPublished' = TRUE
            /\ sbFetch' = "ok"
            /\ scores' = AssignRanks(
                 ScoresData(OrderByPointsDesc(
                   {t \in DOMAIN phase1 : HasPoints(phase1[t])})), 2)
  /\ UNCHANGED searchTerm
  /\ rankOthersUnchanged

\* Scoreboard.tsx 94-102: the Scoreboard renders the notice "Results have not
\* been published yet. Please check back later." instead of the table
NotPublishedNotice == ~resultsPublished

ConfigDocs ==
  {NoDoc, [published |-> FALSE], [published |-> TRUE, publishedAt |-> 0]}

InitRank ==
  /\ \E given \in [RankTeams -> RankPoints \cup {-1}] :
       phase1 = [t \in RankTeams |->
                   IF given[t] = -1 THEN Submission(t)
                   ELSE Merge(Submission(t), [points |-> given[t]])]
  /\ config \in ConfigDocs
  /\ users = <<>> /\ teams = <<>> /\ payments = {}
  /\ InitAuthState
  /\ IdleMail /\ IdleBoard /\ IdleForm /\ IdleAdmin /\ IdleDash
  /\ uploads = StoredFiles

NextRank ==
  \E outcome \in {"ok", "configFailed", "queryFailed"} : fetchScores(outcome)

----------------------------------------------------------------------------
(* Ranking Engine: properties                                              *)

Scored == {t \in DOMAIN phase1 : HasPoints(phase1[t])}

\* C4: with results published the Scoreboard lists exactly the scored
\* submissions, by points descending, under competition ranking: the first
\* entry has rank 1, an entry with its predecessor's points shares its rank,
\* any other entry has its 1-based position as rank, which is one more than
\* the number of entries with strictly more points.
C4_CompetitionRanking ==
  (sbFetch = "ok" /\ IsPublished(config))
    => /\ resultsPublished
       /\ {scores[i].id : i \in DOMAIN scores} = Scored
       /\ Len(scores) = Cardinality(Scored)
       /\ \A i \in DOMAIN scores : scores[i].score = phase1[scores[i].id].points
       /\ \A i, j \in DOMAIN scores : i < j => scores[i].score >= scores[j].score
       /\ \A i \in DOMAIN scores :
            /\ i = 1 => scores[i].rank = 1
            /\ (i > 1 /\ scores[i].score = scores[i - 1].score)
                 => scores[i].rank = scores[i - 1].rank
            /\ (i > 1 /\ scores[i].score # scores[i - 1].score)
                 => scores[i].rank = i
            /\ scores[i].rank =
                 1 + Cardinality({j \in DOMAIN scores :
                                    scores[j].score > scores[i].score})

\* C4 witness: points [90, 90, 80, 70, 70, 70] listed with ranks [1, 1, 3, 4, 4, 4]
C4_Witness ==
  /\ sbFetch = "ok" /\ IsPublished(config)
  /\ Len(scores) = 6
  /\ [i \in 1..6 |-> scores[i].score] = <<90, 90, 80, 70, 70, 70>>
  /\ [i \in 1..6 |-> scores[i].rank] = <<1, 1, 3, 4, 4, 4>>

SpecRank == InitRank /\ [][NextRank]_vars

----------------------------------------------------------------------------
(* Ranking Engine: the search box (Scoreboard.tsx 73-79, 129-135)          *)

MaxTerm == 2

\* a text is the sequence of its characters
Text(a, b) == <<a, b>>

LowerCase == [c \in {"a", "A", "b", "B", "1"} |->
                IF c = "A" THEN "a" ELSE IF c = "B" THEN "b" ELSE c]

\* String.prototype.toLowerCase
toLowerCase(text) == [i \in DOMAIN text |-> LowerCase[text[i]]]

\* String.prototype.includes: term occurs in text as a contiguous run
includes(text, term) ==
  \E i \in 0..(Len(text) - Len(term)) :
     SubSeq(text, i + 1, i + Len(term)) = term

\* the three scored submissions the scoreboard is searched over
FilterTeams == 1..3

FilterSubmission(t) ==
  CASE t = 1 -> [teamName |-> Text("A", "b"), registrationId |-> Text("b", "1"),
                 collegeName |-> Text("a", "a")]
    [] t = 2 -> [teamName |-> Text("b", "A"), registrationId |-> Text("B", "1"),
                 collegeName |-> Text("B", "a")]
    [] OTHER -> [teamName |-> Text("B", "B"), registrationId |-> Text("a", "1"),
                 collegeName |-> Text("A", "A")]

\* what a visitor can type into the search box
RECURSIVE Terms(_)
Terms(n) ==
  IF n = 0 THEN {<<>>}
  ELSE LET shorter == Terms(n - 1)
       IN shorter \cup {Append(t, c) : t \in shorter, c \in {"a", "B", "1"}}

\* the entry matches the term in one of its three searched fields
\* (Scoreboard.tsx 75-77)
Matches(team, term) ==
  \/ includes(toLowerCase(team.teamName), toLowerCase(term))
  \/ includes(toLowerCase(team.registrationId), toLowerCase(term))
  \/ includes(toLowerCase(team.collegeName), toLowerCase(term))

\* a filter that numbers the entries it keeps from 1
filteredScores_Renumbered ==
  LET kept == SelectSeq(scores, LAMBDA team : Matches(team, searchTerm))
  IN [i \in DOMAIN kept |-> [kept[i] EXCEPT !.rank = i]]

\* Scoreboard.tsx 73-79
filteredScores ==
  IF searchTerm # <<>>
  THEN SelectSeq(scores, LAMBDA team : Matches(team, searchTerm))
  ELSE scores

\* Scoreboard.tsx 129-135: onChange of the search box
setSearchTerm(term) ==
  /\ searchTerm' = term
  /\ UNCHANGED <<scores, sbLoading, resultsPublished, sbFetch>>
  /\ rankOthersUnchanged

InitFilter ==
  /\ \E given \in [FilterTeams -> RankPoints \cup {-1}] :
       phase1 = [t \in FilterTeams |->
                   IF given[t] = -1 THEN FilterSubmission(t)
                   ELSE Merge(FilterSubmission(t), [points |-> given[t]])]
  /\ config \in ConfigDocs
  /\ users = <<>> /\ teams = <<>> /\ payments = {}
  /\ InitAuthState
  /\ IdleMail /\ IdleBoard /\ IdleForm /\ IdleAdmin /\ IdleDash
  /\ uploads = StoredFiles

NextFilter ==
  \/ \E outcome \in {"ok", "configFailed", "queryFailed"} : fetchScores(outcome)
  \/ \E term \in Terms(MaxTerm) : setSearchTerm(term)

SpecFilter == InitFilter /\ [][NextFilter]_vars

\* two characters are the same letter, whatever their case
SameLetter(a, b) ==
  \/ a = b
  \/ {a, b} = {"a", "A"}
  \/ {a, b} = {"b", "B"}

\* term occurs in text when case is ignored
ContainsIgnoringCase(text, term) ==
  \E off \in 0..(Len(text) - Len(term)) :
     \A k \in 1..Len(term) : SameLetter(text[off + k], term[k])

\* positions of the ranked list whose entry contains the term in its team
\* name, registration id or college name
MatchingPositions ==
  {i \in DOMAIN scores :
     \/ ContainsIgnoringCase(scores[i].teamName, searchTerm)
     \/ ContainsIgnoringCase(scores[i].registrationId, searchTerm)
     \/ ContainsIgnoringCase(scores[i].collegeName, searchTerm)}

\* the k-th matching position in list order
NthMatch(k) ==
  CHOOSE i \in MatchingPositions :
    Cardinality({j \in MatchingPositions : j <= i}) = k

\* C31: for every search term the filtered scoreboard holds exactly the
\* entries of the ranked list that contain the term, ignoring case, in their
\* team name, registration id or college name, in the order of the ranked
\* list and each unchanged, so with the rank it has in the unfiltered list.
C31_FilterKeepsRanks ==
  /\ Len(filteredScores) = Cardinality(MatchingPositions)
  /\ \A k \in DOMAIN filteredScores : filteredScores[k] = scores[NthMatch(k)]

\* C31 witness: the term "B1" typed over three ranked entries keeps the
\* entries with registration ids "b1" and "B1", the first of them shown with
\* a rank other than its position in the filtered list
C31_Witness ==
  /\ Len(scores) = 3
  /\ searchTerm = <<"B", "1">>
  /\ Len(filteredScores) = 2
  /\ filteredScores[1].rank = 2
  /\ filteredScores[2].rank = 3

----------------------------------------------------------------------------
(* Submission Store: PhaseOneForm (Scoreboard.tsx 216-375)                 *)

\* the browser sessions that have the form of team u1 open
Sessions == {"s1", "s2"}

\* new Date().toISOString(): the text of the clock's current value
Now == [iso |-> now]

\* the message of a rejected store or storage call (err.message)
StoreError == "FirebaseError"

\* getDoc(doc(db, collection, id)): the document, NoDoc when there is none
DocAt(coll, id) == IF id \in DOMAIN coll THEN coll[id] ELSE NoDoc

\* the collection after the document id has been written
Put(coll, id, d) ==
  [k \in (DOMAIN coll) \cup {id} |-> IF k = id THEN d ELSE coll[k]]

\* updateDoc(doc(db, coll, id), fields) on a document that exists, rewritten
\* as a whole
UpdateDoc_Replace(coll, id, fields) == Put(coll, id, fields)

\* updateDoc(doc(db, coll, id), fields) on a document that exists, its
\* points added to the stored ones
UpdateDoc_Accumulate(coll, id, fields) ==
  Put(coll, id,
      Merge(coll[id],
            [fields EXCEPT !.points = @ + Field(Merge([points |-> 0], coll[id]), "points")]))

\* updateDoc(doc(db, coll, id), fields) on a document that exists: the named
\* fields are set, every other field is kept
UpdateDoc(coll, id, fields) == Put(coll, id, Merge(coll[id], fields))

\* Scoreboard.tsx 217-226
EmptyForm ==
  [teamName |-> "", collegeName |-> "", whatsappNumber |-> "",
   productDescription |-> "", solution |-> "", fileUrl |-> "",
   youtubeLink |-> "", registrationId |-> ""]

\* Scoreboard.tsx 216-233: a freshly mounted PhaseOneForm
NewSession(uid, name) ==
  [userId |-> uid, userName |-> name, initialLoading |-> TRUE,
   isSubmitted |-> FALSE, formData |-> EmptyForm, file |-> Null, error |-> ""]

\* the team document of u1 that the form reads for its header fields
FormTeamDocs ==
  {NoDoc, [teamName |-> "T1", registrationId |-> "R1", paymentStatus |-> "paid"]}

\* what a participant types into the four required text fields
FormInputs ==
  {[collegeName |-> "REC", whatsappNumber |-> "98",
    productDescription |-> d, solution |-> "sol"] : d \in {"a", "b"}}
  \cup {[collegeName |-> "REC", whatsappNumber |-> "98",
         productDescription |-> "a", solution |-> ""]}

YoutubeLinks == {"", "yt"}

PptxType == "application/vnd.openxmlformats-officedocument.presentationml.presentation"

\* e.target.files[0] of the file chooser, Null when nothing was chosen
FilePicks ==
  {Null, [name |-> "deck.pptx", type |-> PptxType],
         [name |-> "deck.pdf", type |-> "application/pdf"]}

\* ref(storage, `presentations/${userId}_${file.name}`) and its download URL
DownloadURL(uid, file) == <<"presentations", uid, file.name>>

\* the awaits of loadSubmissionData that may reject
LoadFailures == {"none", "teams", "config", "submission", "recStudent"}

formOthersUnchanged ==
  UNCHANGED <<authVars, mailVars, boardVars, adminVars, dashVars>>

\* Scoreboard.tsx 244-295: loadSubmissionData, run once per mount.  failAt
\* names the getDoc call that rejects.
loadSubmissionData(s, failAt) ==
  /\ forms[s].initialLoading
  /\ LET f == forms[s]
         teamDoc == DocAt(teams, f.userId)
         withTeam ==
           IF failAt # "teams" /\ teamDoc # NoDoc
           THEN Merge(f.formData,
                      [teamName |-> Field(teamDoc, "teamName"),
                       registrationId |-> Field(teamDoc, "registrationId")])
           ELSE f.formData
         submissionDoc == DocAt(phase1, f.userId)
         found == failAt \in {"none", "recStudent"} /\ submissionDoc # NoDoc
     IN forms' = [forms EXCEPT ![s] =
                    [f EXCEPT
                       !.formData = IF found THEN Merge(withTeam, submissionDoc)
                                    ELSE withTeam,
                       !.isSubmitted = found,
                       !.error = IF failAt = "none" THEN ""
                                 ELSE "Failed to load your submission data",
                       !.initialLoading = FALSE]]
  /\ UNCHANGED <<storeVars, storageVars>>
  /\ formOthersUnchanged

\* Scoreboard.tsx 602, 614, 626, 638: the onChange handlers of collegeName,
\* whatsappNumber, productDescription and solution, each `!isSubmitted &&
\* setFormData(...)`, applied until the four fields read `input`
setFormData(s, input) ==
  /\ ~forms[s].initialLoading
  /\ ~forms[s].isSubmitted
  /\ forms' = [forms EXCEPT ![s].formData = Merge(@, input)]
  /\ UNCHANGED <<storeVars, storageVars>>
  /\ formOthersUnchanged

\* Scoreboard.tsx 692: onChange of the youtubeLink field
setYoutubeLink(s, link) ==
  /\ ~forms[s].initialLoading
  /\ forms' = [forms EXCEPT ![s].formData = Merge(@, [youtubeLink |-> link])]
  /\ UNCHANGED <<storeVars, storageVars>>
  /\ formOthersUnchanged

\* Scoreboard.tsx 300-315
handleFileChange(s, picked) ==
  /\ ~forms[s].initialLoading
  /\ forms' =
       [forms EXCEPT ![s] =
          IF @.isSubmitted
          THEN [@ EXCEPT !.error =
                  "You cannot modify your submission after initial submission"]
          ELSE IF picked = Null THEN @
          ELSE IF picked.type # PptxType
          THEN [@ EXCEPT !.error = "Please upload a PowerPoint file (.pptx)"]
          ELSE [@ EXCEPT !.file = picked, !.error = ""]]
  /\ UNCHANGED <<storeVars, storageVars>>
  /\ formOthersUnchanged

SubmitOutcomes == {"ok", "uploadFailed", "urlFailed", "writeFailed"}

\* uploadBytes rejects: nothing is stored and the handler's catch runs
UploadRejected(outcome) == outcome = "uploadFailed"

\* a handler that writes its record whatever the calls before answered
WritesRecord_Always(outcome) == TRUE

\* the awaits run in sequence (uploadBytes, getDownloadURL, setDoc) and a
\* rejection skips to the catch: the record is written when none rejects
WritesRecord(outcome) == outcome = "ok"

\* a validation that looks at the chosen file only
ValidationError_FileOnly(f) ==
  IF f.file = Null THEN "Please upload your presentation file" ELSE ""

\* Scoreboard.tsx 340-346: the message of the validation that fails, "" if none
ValidationError(f) ==
  IF \/ f.formData.collegeName = "" \/ f.formData.whatsappNumber = ""
     \/ f.formData.productDescription = "" \/ f.formData.solution = ""
  THEN "Please fill in all required fields"
  ELSE IF f.file = Null THEN "Please upload your presentation file"
  ELSE ""

\* Scoreboard.tsx 357-363: the document of an initial submission
NewSubmission(f) ==
  Merge(Merge(f.formData, [fileUrl |-> DownloadURL(f.userId, f.file)]),
        [userId |-> f.userId, userName |-> f.userName,
         submittedAt |-> Now, updatedAt |-> Now])

\* the fields of a link update that hands the form's description to the
\* store as well
LinkUpdate_WithDescription(f) ==
  [youtubeLink |-> f.formData.youtubeLink, updatedAt |-> Now,
   productDescription |-> f.formData.productDescription]

\* Scoreboard.tsx 329-332: the fields the update branch hands to updateDoc
LinkUpdate(f) == [youtubeLink |-> f.formData.youtubeLink, updatedAt |-> Now]

\* Scoreboard.tsx 317-375.  outcome names the store or storage call that
\* rejects; a run that makes no such call has outcome "ok".
handleSubmit(s, outcome) ==
  /\ ~forms[s].initialLoading
  /\ LET f == forms[s]
         id == f.userId
         fail(msg) == /\ forms' = [forms EXCEPT ![s].error = msg]
                      /\ UNCHANGED phase1
     IN IF f.isSubmitted
        THEN \* 323-337: only the YouTube link may be updated
             /\ UNCHANGED uploads
             /\ IF f.formData.youtubeLink = ""
                THEN outcome = "ok" /\ fail("Please provide a YouTube video link")
                ELSE IF outcome = "ok" /\ id \in DOMAIN phase1
                THEN /\ phase1' = UpdateDoc(phase1, id, LinkUpdate(f))
                     /\ forms' = [forms EXCEPT ![s].error = ""]
                ELSE outcome \in {"ok", "writeFailed"} /\ fail(StoreError)
        ELSE \* 339-366: the initial submission
             IF ValidationError(f) # ""
             THEN outcome = "ok" /\ fail(ValidationError(f)) /\ UNCHANGED uploads
             ELSE \* 350-363: uploadBytes, getDownloadURL, setDoc
                  /\ uploads' = IF UploadRejected(outcome) THEN uploads
                                ELSE uploads \cup {DownloadURL(id, f.file)}
                  /\ IF WritesRecord(outcome)
                     THEN /\ phase1' = Put(phase1, id, NewSubmission(f))
                          /\ forms' = [forms EXCEPT ![s].error = "",
                                                    ![s].isSubmitted = TRUE]
                     ELSE fail(StoreError)
  /\ UNCHANGED config
  /\ formOthersUnchanged

\* a submission of u1 stored and scored before the sessions were opened
EarlierSubmission ==
  [teamName |-> "T1", collegeName |-> "REC", whatsappNumber |-> "98",
   productDescription |-> "a", solution |-> "sol",
   fileUrl |-> <<"presentations", "u1", "deck.pptx">>, youtubeLink |-> "",
   registrationId |-> "R1", userId |-> "u1", userName |-> "Pat",
   submittedAt |-> Now, updatedAt |-> Now,
   points |-> 80, review |-> "good", reviewedAt |-> Now]

InitForm ==
  /\ IdleDash
  /\ forms = [s \in Sessions |-> NewSession("u1", "Pat")]
  /\ \E teamDoc \in FormTeamDocs : teams = [id \in {"u1"} |-> teamDoc]
  /\ phase1 \in {<<>>, [id \in {"u1"} |-> EarlierSubmission]}
  /\ config \in {NoDoc, [published |-> FALSE]}
  /\ users = <<>> /\ payments = {}
  /\ InitAuthState
  /\ IdleMail /\ IdleBoard /\ IdleAdmin
  /\ uploads = StoredFiles

NextForm ==
  \E s \in Sessions :
    \/ \E failAt \in LoadFailures : loadSubmissionData(s, failAt)
    \/ \E input \in FormInputs : setFormData(s, input)
    \/ \E link \in YoutubeLinks : setYoutubeLink(s, link)
    \/ \E picked \in FilePicks : handleFileChange(s, picked)
    \/ \E outcome \in SubmitOutcomes : handleSubmit(s, outcome)

SpecForm == InitForm /\ [][NextForm]_vars

----------------------------------------------------------------------------
(* Properties of the Submission Store                                      *)

FixedFields ==
  {"productDescription", "solution", "collegeName", "whatsappNumber", "fileUrl"}

Fixed(d) == [k \in FixedFields |-> Field(d, k)]

\* C1: once a Phase1Submission exists for a team, no participant operation on
\* PhaseOneForm, from any session of the team, changes its stored
\* productDescription, solution, collegeName, whatsappNumber or fileUrl.
C1_FrozenAfterCreation ==
  [][\A id \in DOMAIN phase1 :
       id \in DOMAIN phase1' /\ Fixed(phase1'[id]) = Fixed(phase1[id])]_vars

\* C1 witness: both sessions of u1 count as submitted, the first still shows
\* description "a" while the stored record, rewritten by the second, holds "b"
C1_Witness ==
  /\ forms["s1"].isSubmitted /\ forms["s2"].isSubmitted
  /\ forms["s1"].formData.productDescription = "a"
  /\ "u1" \in DOMAIN phase1
  /\ phase1["u1"].productDescription = "b"

----------------------------------------------------------------------------
(* Scoring Workflow: AdminDashboard (part_001 25-115, 236-315)             *)

\* fetchData calls that may be outstanding at once
MaxFetches == 2

\* NaN, the result of parseInt on a text that holds no number; it stands
\* outside the integers a score field of at most five characters can hold
NaN == -1000000

\* what the administrator types into the score field, character by character
ScoreTexts == {<<"8", "0">>}

\* the values a type="number" input can report besides a score in range: the
\* empty field, a number above max, a number below min, a fraction
ScoreEntries ==
  {<<>>, <<"8", "0">>, <<"1", "5", "0">>, <<"-", "5">>, <<"7", ".", "5">>}

DigitValue(c) ==
  CASE c = "0" -> 0 [] c = "1" -> 1 [] c = "2" -> 2 [] c = "3" -> 3
    [] c = "4" -> 4 [] c = "5" -> 5 [] c = "6" -> 6 [] c = "7" -> 7
    [] c = "8" -> 8 [] c = "9" -> 9

IsDigit(c) == c \in {"0", "1", "2", "3", "4", "5", "6", "7", "8", "9"}

\* the number of digits a text starts with
RECURSIVE LeadingDigits(_)
LeadingDigits(text) ==
  IF text = <<>> \/ ~IsDigit(Head(text)) THEN 0
  ELSE 1 + LeadingDigits(Tail(text))

\* the decimal value of the digits a text starts with, after acc
RECURSIVE DigitsValue(_, _)
DigitsValue(text, acc) ==
  IF text = <<>> \/ ~IsDigit(Head(text)) THEN acc
  ELSE DigitsValue(Tail(text), 10 * acc + DigitValue(Head(text)))

\* parseInt(e.target.value): an optional sign, then the longest run of
\* decimal digits; NaN when there is no digit
ParseInt(text) ==
  LET signed == text # <<>> /\ Head(text) \in {"-", "+"}
      digits == IF signed THEN Tail(text) ELSE text
  IN IF LeadingDigits(digits) = 0 THEN NaN
     ELSE IF signed /\ Head(text) = "-" THEN 0 - DigitsValue(digits, 0)
     ELSE DigitsValue(digits, 0)

AdminOutcomes == {"ok", "failed"}

AllScoredMessage == "All submissions must be scored before publishing results"

\* the message of updateDoc rejecting because the document does not exist
NotFoundMessage == "No document to update"

PublishedMessage == "Results published successfully!"

\* part_001 46-49: snapshot.docs.map(doc => ({ id: doc.id, ...doc.data() }))
SubmissionsData ==
  [id \in DOMAIN phase1 |-> Merge([id |-> id], phase1[id])]

\* submission.points || 0
PointsOrZero(sub) ==
  IF HasPoints(sub) /\ sub.points # NaN THEN sub.points ELSE 0

\* part_001 87: submissions.filter(sub => sub.points === undefined)
Unscored(list) == {id \in DOMAIN list : ~HasPoints(list[id])}

adminOthersUnchanged ==
  UNCHANGED <<authVars, mailVars, boardVars, formVars, dashVars, storageVars>>

\* the scoring panel of a listed submission is on screen
PanelShown ==
  ~adminLoading /\ editingScore # Null /\ editingScore.id \in DOMAIN submissions

\* part_001 41-57: fetchData from its await on; the call itself is made on
\* mount and by handleScoreSubmit
fetchData(outcome) ==
  /\ fetching > 0
  /\ fetching' = fetching - 1
  /\ adminLoading' = FALSE
  /\ IF outcome = "ok"
     THEN submissions' = SubmissionsData /\ UNCHANGED adminError
     ELSE adminError' = "Failed to fetch submissions" /\ UNCHANGED submissions
  /\ UNCHANGED <<adminSuccess, editingScore, scoreData, storeVars>>
  /\ adminOthersUnchanged

\* part_001 306-313: the Add Score / Edit Score button of a listed submission
startEditing(id) ==
  /\ ~adminLoading
  /\ id \in DOMAIN submissions
  /\ editingScore # [id |-> id]
  /\ editingScore' = [id |-> id]
  /\ scoreData' = [points |-> PointsOrZero(submissions[id]),
                   review |-> Field(submissions[id], "review")]
  /\ UNCHANGED <<submissions, adminLoading, adminError, adminSuccess, fetching,
                 storeVars>>
  /\ adminOthersUnchanged

\* part_001 272: the Cancel button
cancelEditing ==
  /\ PanelShown
  /\ editingScore' = Null
  /\ UNCHANGED <<submissions, adminLoading, adminError, adminSuccess, scoreData,
                 fetching, storeVars>>
  /\ adminOthersUnchanged

\* part_001 252-259: onChange of the score input; the review text stays the
\* one startEditing took from the list
setScoreData(text) ==
  /\ PanelShown
  /\ scoreData' = [scoreData EXCEPT !.points = ParseInt(text)]
  /\ scoreData' # scoreData
  /\ UNCHANGED <<submissions, adminLoading, adminError, adminSuccess,
                 editingScore, fetching, storeVars>>
  /\ adminOthersUnchanged

\* part_001 59-80: the Save Score button of the panel
handleScoreSubmit(submissionId, outcome) ==
  /\ PanelShown
  /\ editingScore = [id |-> submissionId]
  /\ fetching < MaxFetches
  /\ adminLoading' = FALSE
  /\ IF outcome = "ok" /\ submissionId \in DOMAIN phase1
     THEN /\ phase1' = UpdateDoc(phase1, submissionId,
                                 [points |-> scoreData.points,
                                  review |-> scoreData.review,
                                  reviewedAt |-> Now])
          /\ editingScore' = Null
          /\ scoreData' = [points |-> 0, review |-> ""]
          /\ fetching' = fetching + 1
          /\ adminSuccess' = "Score updated successfully"
          /\ UNCHANGED adminError
     ELSE /\ adminError' = "Failed to update score"
          /\ UNCHANGED <<phase1, editingScore, scoreData, fetching, adminSuccess>>
  /\ UNCHANGED <<submissions, config>>
  /\ adminOthersUnchanged

\* the fields of a publication that flips the stored flag
PublishedFields_Toggle ==
  [published |-> ~IsPublished(config), publishedAt |-> Now]

\* part_001 97-105: the fields publishResults hands to updateDoc
PublishedFields == [published |-> TRUE, publishedAt |-> Now]

\* part_001 82-115: the Publish Results button.  A run stopped by the check
\* of line 87-90 makes no store call and has outcome "ok".
publishResults(outcome) ==
  /\ ~adminLoading
  /\ IF Unscored(submissions) # {}
     THEN /\ outcome = "ok"
          /\ adminError' = AllScoredMessage
          /\ UNCHANGED <<config, adminSuccess>>
     ELSE IF outcome = "failed"
     THEN /\ adminError' = StoreError
          /\ UNCHANGED <<config, adminSuccess>>
     ELSE IF config = NoDoc
     THEN \* 96-100: updateDoc on the document that does not exist
          /\ adminError' = NotFoundMessage
          /\ UNCHANGED <<config, adminSuccess>>
     ELSE /\ config' = Merge(config, PublishedFields)
          /\ adminSuccess' = PublishedMessage
          /\ UNCHANGED adminError
  /\ UNCHANGED <<submissions, adminLoading, editingScore, scoreData, fetching,
                 phase1>>
  /\ adminOthersUnchanged

\* the document of team u2, submitted before the dashboard was opened
OtherSubmission ==
  [teamName |-> "T2", collegeName |-> "REC", whatsappNumber |-> "97",
   productDescription |-> "c", solution |-> "sol",
   fileUrl |-> <<"presentations", "u2", "deck.pptx">>, youtubeLink |-> "",
   registrationId |-> "R2", userId |-> "u2", userName |-> "Sam",
   submittedAt |-> Now, updatedAt |-> Now]

\* a session of u1 that loaded before any submission of u1 existed and whose
\* form has been filled in with the given description
FilledSession(description) ==
  [NewSession("u1", "Pat") EXCEPT
     !.initialLoading = FALSE,
     !.formData = Merge(EmptyForm,
                        [teamName |-> "T1", registrationId |-> "R1",
                         collegeName |-> "REC", whatsappNumber |-> "98",
                         productDescription |-> description, solution |-> "sol"]),
     !.file = [name |-> "deck.pptx", type |-> PptxType]]

InitAdmin ==
  /\ IdleDash
  /\ forms = [s \in Sessions |-> FilledSession(IF s = "s1" THEN "a" ELSE "b")]
  /\ teams = [id \in {"u1"} |->
                [teamName |-> "T1", registrationId |-> "R1", paymentStatus |-> "paid"]]
  /\ phase1 \in {<<>>,
                 [id \in {"u2"} |-> OtherSubmission],
                 [id \in {"u2"} |-> Merge(OtherSubmission,
                                          [points |-> 80, review |-> "good",
                                           reviewedAt |-> Now])]}
  /\ config \in {NoDoc, [published |-> FALSE]}
  /\ users = <<>> /\ payments = {}
  /\ InitAuthState
  /\ IdleMail /\ IdleBoard /\ IdleAdmin
  /\ uploads = StoredFiles

NextAdmin ==
  \/ \E outcome \in AdminOutcomes : fetchData(outcome)
  \/ \E id \in {"u1", "u2"} : startEditing(id)
  \/ cancelEditing
  \/ \E text \in ScoreTexts : setScoreData(text)
  \/ \E id \in {"u1", "u2"}, outcome \in AdminOutcomes :
       handleScoreSubmit(id, outcome)
  \/ \E outcome \in AdminOutcomes : publishResults(outcome)
  \/ \E s \in Sessions : handleSubmit(s, "ok")

SpecAdmin == InitAdmin /\ [][NextAdmin]_vars

\* the scoring panel alone, with every kind of entry in the score field
InitScore ==
  /\ IdleDash
  /\ phase1 \in {[id \in {"u2"} |-> OtherSubmission],
                 [id \in {"u2"} |-> Merge(OtherSubmission,
                                          [points |-> 80, review |-> "good",
                                           reviewedAt |-> Now])]}
  /\ config = [published |-> FALSE]
  /\ users = <<>> /\ teams = <<>> /\ payments = {}
  /\ InitAuthState
  /\ IdleMail /\ IdleBoard /\ IdleForm /\ IdleAdmin
  /\ uploads = StoredFiles

NextScore ==
  \/ \E outcome \in AdminOutcomes : fetchData(outcome)
  \/ startEditing("u2")
  \/ cancelEditing
  \/ \E text \in ScoreEntries : setScoreData(text)
  \/ \E outcome \in AdminOutcomes : handleScoreSubmit("u2", outcome)

SpecScore == InitScore /\ [][NextScore]_vars

----------------------------------------------------------------------------
(* Properties of the Scoring Workflow                                      *)

AllScored(list) == \A id \in DOMAIN list : HasPoints(list[id])

\* C2: publishResults never sets ResultsConfig.published to true while a
\* Phase1Submission in the store lacks points; published remains false.
C2_NoPublishWhileUnscored ==
  [][~IsPublished(config) /\ IsPublished(config') => AllScored(phase1)]_vars

\* C2 witness: results are published and reported as such although the
\* submission of u2, stored before the dashboard was opened, has no points
C2_Witness ==
  /\ IsPublished(config) /\ adminSuccess = PublishedMessage
  /\ "u2" \in DOMAIN phase1 /\ ~HasPoints(phase1["u2"])

\* C3: whenever every known Phase1Submission has a defined points value and
\* the store is reachable, publishResults ends with published = true and a
\* publishedAt timestamp and reports success, also when config/phase1Results
\* has never been created.
C3_PublishSucceedsWhenScored ==
  [][publishResults("ok") /\ AllScored(submissions) /\ AllScored(phase1)
       => /\ IsPublished(config')
          /\ "publishedAt" \in DOMAIN config'
          /\ adminSuccess' = PublishedMessage]_vars

\* C3 witness: a publish attempt with every submission scored, in the list
\* and in the store, ended with the missing-document error and nothing
\* published
C3_Witness ==
  /\ adminError = NotFoundMessage /\ config = NoDoc
  /\ DOMAIN phase1 # {}
  /\ AllScored(submissions) /\ AllScored(phase1)

----------------------------------------------------------------------------
(* Phase-2 track, team editing and countdown: UserDashboard                *)
(* (Scoreboard.tsx 778-927, 1029-1126)                                     *)

\* new Date('April 2, 2025 23:59:59').getTime(); the model's time starts two
\* days before that instant
phase2Deadline == 172800000

\* half seconds past the deadline for which the clock keeps running
MaxLate == 2

\* dashboard reloads that may be outstanding at once
MaxLoads == 2

\* the instants at which something happens: more than a day ahead of the
\* deadline, and every half second around it
Instants ==
  {phase2Deadline - 90061000}
  \cup {phase2Deadline + 500 * k : k \in (0 - 2)..MaxLate}

\* Scoreboard.tsx 893-895
isSubmissionClosed_AtDeadline(t) == t >= phase2Deadline

isSubmissionClosed(t) == t > phase2Deadline

\* Scoreboard.tsx 879: the countdown has run out
CountdownOver_Never(distance) == FALSE

CountdownOver(distance) == distance <= 0

\* JavaScript a % b for b > 0: the result has the sign of a
JsRem(a, b) == IF a >= 0 THEN a % b ELSE 0 - ((0 - a) % b)

\* Scoreboard.tsx 883-888: `${days}d ${hours}h ${minutes}m ${seconds}s`
Duration(distance) ==
  [days |-> distance \div 86400000,
   hours |-> JsRem(distance, 86400000) \div 3600000,
   minutes |-> JsRem(distance, 3600000) \div 60000,
   seconds |-> JsRem(distance, 60000) \div 1000]

ClosedText == [text |-> "Submission Closed"]
BlankText == [text |-> ""]

\* Scoreboard.tsx 778-796: a freshly mounted UserDashboard; `loads` counts its
\* loadDashboardData calls that have not returned, closedAtRender is what
\* isSubmissionClosed() returned when the view was rendered last
NewDashboard(uid, t) ==
  [userId |-> uid, loading |-> TRUE, error |-> "", success |-> "",
   phase1Data |-> Null, phase2Data |-> Null, teamData |-> Null,
   businessProposal |-> Null, youtubeVideoUrl |-> "", teamMembers |-> <<>>,
   timeRemaining |-> BlankText, loads |-> 1,
   closedAtRender |-> isSubmissionClosed(t)]

\* the view is rendered again after a state change
Render(d) == [d EXCEPT !.closedAtRender = isSubmissionClosed(now)]

\* the phase-2 inputs are on screen and enabled (Scoreboard.tsx 1058, 1072,
\* 1084, 1120)
Phase2Enabled == dash # Null /\ ~dash.loading /\ ~dash.closedAtRender

dashOthersUnchanged ==
  UNCHANGED <<users, payments, isAuthenticated, isAdmin, isFinanceAdmin,
              currentUser, paymentStatus, loading, principal, eventCount,
              inflight, lastDone, overlapped, mailVars, storeVars, boardVars,
              formVars, adminVars>>

\* time passes to a later instant; nothing is rendered
TimePasses(t) ==
  /\ t > now
  /\ now' = t
  /\ UNCHANGED <<teams, phase2, dash, countdowns>>
  /\ UNCHANGED uploads
  /\ dashOthersUnchanged

DashLoadFailures == {"none", "phase1", "phase2", "teams"}

\* Scoreboard.tsx 798-828: loadDashboardData from its first await on.  failAt
\* names the getDoc call that rejects.
loadDashboardData(failAt) ==
  /\ dash # Null /\ dash.loads > 0
  /\ LET phase1Doc == DocAt(phase1, dash.userId)
         phase2Doc == DocAt(phase2, dash.userId)
         teamDoc == DocAt(teams, dash.userId)
         got1 == failAt # "phase1" /\ phase1Doc # NoDoc
         got2 == failAt \in {"none", "teams"} /\ phase2Doc # NoDoc
         got3 == failAt = "none" /\ teamDoc # NoDoc
     IN dash' = Render(
          [dash EXCEPT
             !.phase1Data = IF got1 THEN phase1Doc ELSE @,
             !.phase2Data = IF got2 THEN phase2Doc ELSE @,
             !.youtubeVideoUrl =
                IF got2 THEN Field(phase2Doc, "youtubeVideoUrl") ELSE @,
             !.teamData = IF got3 THEN teamDoc ELSE @,
             !.teamMembers = IF got3
                             THEN (IF "members" \in DOMAIN teamDoc
                                   THEN teamDoc.members ELSE <<>>)
                             ELSE @,
             !.error = IF failAt = "none" THEN @
                       ELSE "Failed to load dashboard data",
             !.loading = FALSE,
             !.loads = @ - 1])
  /\ UNCHANGED <<now, teams, phase2, countdowns>>
  /\ UNCHANGED uploads
  /\ dashOthersUnchanged

MemberEdits == {[name |-> "Zed"], [year |-> "2"]}

DashOutcomes == {"ok", "failed"}

\* Scoreboard.tsx 830-844
handleMemberUpdate(index, data, outcome) ==
  /\ dash # Null /\ ~dash.loading
  /\ index \in 1..Len(dash.teamMembers)
  /\ LET updatedMembers ==
           [dash.teamMembers EXCEPT ![index] = Merge(@, data)]
     IN /\ updatedMembers # dash.teamMembers
        /\ IF outcome = "ok"
           THEN /\ teams' = Put(teams, dash.userId, [members |-> updatedMembers])
                /\ dash' = Render(
                     [dash EXCEPT
                        !.teamMembers = updatedMembers,
                        !.success = "Team member details updated successfully"])
           ELSE /\ UNCHANGED teams
                /\ dash' = Render(
                     [dash EXCEPT
                        !.teamMembers = updatedMembers,
                        !.error = "Failed to update team member details"])
  /\ UNCHANGED <<now, phase2, countdowns>>
  /\ UNCHANGED uploads
  /\ dashOthersUnchanged

VideoUrls == {"yt"}

\* Scoreboard.tsx 1052-1059: the YouTube URL field
setYoutubeVideoUrl(url) ==
  /\ Phase2Enabled
  /\ url # dash.youtubeVideoUrl
  /\ dash' = Render([dash EXCEPT !.youtubeVideoUrl = url])
  /\ UNCHANGED <<now, teams, phase2, countdowns>>
  /\ UNCHANGED uploads
  /\ dashOthersUnchanged

ProposalFile == [name |-> "plan.pdf", type |-> "application/pdf"]

\* Scoreboard.tsx 1066-1073: the file chooser
setBusinessProposal(file) ==
  /\ Phase2Enabled
  /\ file # dash.businessProposal
  /\ dash' = Render([dash EXCEPT !.businessProposal = file])
  /\ UNCHANGED <<now, teams, phase2, countdowns>>
  /\ UNCHANGED uploads
  /\ dashOthersUnchanged

\* setDoc(ref, fields, { merge: true })
SetDocMerge_Replace(coll, id, fields) == Put(coll, id, fields)

SetDocMerge(coll, id, fields) ==
  Put(coll, id, IF id \in DOMAIN coll THEN Merge(coll[id], fields) ELSE fields)

\* Scoreboard.tsx 853-855: ref(storage, `proposals/${userId}_${name}`) and its
\* download URL
ProposalURL(uid, file) == <<"proposals", uid, file.name>>

\* Scoreboard.tsx 846-872: the Upload Proposal button, shown once a file is
\* chosen.  outcome names the storage or store call that rejects.
handleProposalUpload(outcome) ==
  /\ Phase2Enabled
  /\ dash.businessProposal # Null
  /\ dash.loads < MaxLoads
  /\ LET fileUrl == ProposalURL(dash.userId, dash.businessProposal)
     IN /\ uploads' = IF UploadRejected(outcome) THEN uploads
                      ELSE uploads \cup {fileUrl}
        /\ IF WritesRecord(outcome)
           THEN /\ phase2' = SetDocMerge(phase2, dash.userId,
                      [proposalUrl |-> fileUrl,
                       youtubeVideoUrl |-> dash.youtubeVideoUrl,
                       submittedAt |-> Now,
                       status |-> "pending"])
                /\ dash' = Render(
                     [dash EXCEPT
                        !.success =
                           "Business proposal and YouTube video uploaded successfully",
                        !.loads = @ + 1,
                        !.loading = FALSE])
           ELSE /\ UNCHANGED phase2
                /\ dash' = Render(
                     [dash EXCEPT !.error = "Failed to upload business proposal",
                                  !.loading = FALSE])
  /\ UNCHANGED <<now, teams, countdowns>>
  /\ dashOthersUnchanged

\* Scoreboard.tsx 875-890: one firing of an interval startCountdown set up.
\* setTimeRemaining on a view that is no longer mounted changes nothing.
countdownTick ==
  /\ countdowns > 0
  /\ LET distance == phase2Deadline - now
         show(text) == IF dash = Null THEN dash
                       ELSE Render([dash EXCEPT !.timeRemaining = text])
     IN IF CountdownOver(distance)
        THEN /\ countdowns' = countdowns - 1
             /\ dash' = show(ClosedText)
        ELSE /\ UNCHANGED countdowns
             /\ dash' = show(Duration(distance))
  /\ UNCHANGED <<now, teams, phase2>>
  /\ UNCHANGED uploads
  /\ dashOthersUnchanged

\* countdown intervals that may be running at once
MaxCountdowns == 2

\* the users whose dashboard the application shows in turn
DashUsers == {"u1", "u2"}

\* Scoreboard.tsx 793-796: the view is mounted for uid; the effect calls
\* loadDashboardData and startCountdown
mountDashboard(uid) ==
  /\ dash = Null
  /\ countdowns < MaxCountdowns
  /\ dash' = NewDashboard(uid, now)
  /\ countdowns' = countdowns + 1
  /\ UNCHANGED <<now, teams, phase2>>
  /\ UNCHANGED uploads
  /\ dashOthersUnchanged

\* Scoreboard.tsx 793-796: the mounted view gets another userId; the effect,
\* which returns no cleanup, runs again
userIdChanges(uid) ==
  /\ dash # Null /\ uid # dash.userId
  /\ countdowns < MaxCountdowns
  /\ dash.loads < MaxLoads
  /\ dash' = Render([dash EXCEPT !.userId = uid, !.loading = TRUE,
                                 !.loads = @ + 1])
  /\ countdowns' = countdowns + 1
  /\ UNCHANGED <<now, teams, phase2>>
  /\ UNCHANGED uploads
  /\ dashOthersUnchanged

\* Scoreboard.tsx 793-796: the view is unmounted; the effect returns no
\* cleanup, so nothing is cleared
unmountDashboard ==
  /\ dash # Null
  /\ dash' = Null
  /\ UNCHANGED <<now, teams, phase2, countdowns>>
  /\ UNCHANGED uploads
  /\ dashOthersUnchanged

\* Scoreboard.tsx 897-927 (and 1120): what the "Phase 1 Results" panel of the
\* dashboard displays, Null when the panel shows no submission
renderPhase1Status ==
  IF dash # Null /\ ~dash.loading /\ dash.phase1Data # Null
  THEN [points |-> Field(dash.phase1Data, "points"),
        review |-> Field(dash.phase1Data, "review")]
  ELSE Null

DashMember(n) == [name |-> n, email |-> <<n, "mail">>, phone |-> "1"]

\* the team documents of u1 the dashboard may find
DashTeamDocs ==
  {[teamName |-> "T1", registrationId |-> "R1", paymentStatus |-> "paid",
    members |-> <<DashMember("Ann"), DashMember("Bob")>>],
   [teamName |-> "T1", registrationId |-> "R1", paymentStatus |-> "pending"]}

\* the phase-1 submission of u1, scored or not
DashSubmissions ==
  {Merge(EarlierSubmission, [points |-> 80]),
   [k \in (DOMAIN EarlierSubmission) \ {"points", "review", "reviewedAt"} |->
      EarlierSubmission[k]]}

\* a phase-2 submission of u1 stored earlier
EarlierProposal ==
  [proposalUrl |-> <<"proposals", "u1", "draft.pdf">>, youtubeVideoUrl |-> "yt0",
   submittedAt |-> [iso |-> 0], status |-> "reviewed", remarks |-> "good"]

\* a phase-2 submission of another team
OtherProposal ==
  [proposalUrl |-> <<"proposals", "u2", "pitch.pdf">>, youtubeVideoUrl |-> "yt2",
   submittedAt |-> [iso |-> 0], status |-> "pending"]

\* the dashboard of u1 is opened before the deadline
InitDash ==
  /\ now \in {t \in Instants : t < phase2Deadline}
  /\ teams = [id \in {"u1"} |->
                [teamName |-> "T1", registrationId |-> "R1",
                 paymentStatus |-> "paid"]]
  /\ phase1 = <<>>
  /\ config = [published |-> FALSE]
  /\ phase2 \in {<<>>, [id \in {"u1"} |-> EarlierProposal],
                 [id \in {"u1", "u2"} |->
                    IF id = "u1" THEN EarlierProposal ELSE OtherProposal]}
  /\ dash = NewDashboard("u1", now)
  /\ countdowns = 1
  /\ users = <<>> /\ payments = {}
  /\ InitAuthState
  /\ IdleMail /\ IdleBoard /\ IdleForm /\ IdleAdmin
  /\ uploads = StoredFiles

\* the phase-2 track and the countdown, as time passes
NextDash ==
  \/ \E t \in Instants : TimePasses(t)
  \/ \E failAt \in DashLoadFailures : loadDashboardData(failAt)
  \/ \E url \in VideoUrls : setYoutubeVideoUrl(url)
  \/ setBusinessProposal(ProposalFile)
  \/ \E outcome \in SubmitOutcomes : handleProposalUpload(outcome)
  \/ countdownTick

SpecDash == InitDash /\ [][NextDash]_vars

\* the team editor of the dashboard
NextTeam ==
  \/ \E failAt \in DashLoadFailures : loadDashboardData(failAt)
  \/ \E index \in 1..2, data \in MemberEdits, outcome \in DashOutcomes :
       handleMemberUpdate(index, data, outcome)

InitTeam ==
  /\ now = phase2Deadline - 90061000
  /\ \E teamDoc \in DashTeamDocs : teams = [id \in {"u1"} |-> teamDoc]
  /\ \E sub \in DashSubmissions : phase1 = [id \in {"u1"} |-> sub]
  /\ config \in {NoDoc, [published |-> FALSE]}
  /\ phase2 \in {<<>>, [id \in {"u1"} |-> EarlierProposal]}
  /\ dash = NewDashboard("u1", now)
  /\ countdowns = 1
  /\ users = <<>> /\ payments = {}
  /\ InitAuthState
  /\ IdleMail /\ IdleBoard /\ IdleForm /\ IdleAdmin
  /\ uploads = StoredFiles

SpecTeam == InitTeam /\ [][NextTeam]_vars

\* the YouTube link of a submitted entry, as time passes: one session of u1
\* on the stored and scored submission
InitLink ==
  /\ now = phase2Deadline - 90061000
  /\ forms = [s \in {"s1"} |-> NewSession("u1", "Pat")]
  /\ \E teamDoc \in FormTeamDocs : teams = [id \in {"u1"} |-> teamDoc]
  /\ phase1 = [id \in {"u1"} |-> EarlierSubmission]
  /\ config \in {NoDoc, [published |-> FALSE]}
  /\ phase2 = <<>> /\ dash = Null /\ countdowns = 0
  /\ users = <<>> /\ payments = {}
  /\ InitAuthState
  /\ IdleMail /\ IdleBoard /\ IdleAdmin
  /\ uploads = StoredFiles

NextLink ==
  \/ \E t \in Instants : TimePasses(t)
  \/ \E failAt \in LoadFailures : loadSubmissionData("s1", failAt)
  \/ \E link \in YoutubeLinks \cup {"yt2"} : setYoutubeLink("s1", link)
  \/ \E outcome \in SubmitOutcomes : handleSubmit("s1", outcome)

SpecLink == InitLink /\ [][NextLink]_vars

\* the life of the dashboard view and of its countdown intervals
InitTimer ==
  /\ now = phase2Deadline - 90061000
  /\ teams = [id \in {"u1"} |->
                [teamName |-> "T1", registrationId |-> "R1",
                 paymentStatus |-> "paid"]]
  /\ phase1 = <<>>
  /\ config = [published |-> FALSE]
  /\ phase2 = <<>>
  /\ dash = NewDashboard("u1", now)
  /\ countdowns = 1
  /\ users = <<>> /\ payments = {}
  /\ InitAuthState
  /\ IdleMail /\ IdleBoard /\ IdleForm /\ IdleAdmin
  /\ uploads = StoredFiles

NextTimer ==
  \/ \E t \in Instants : TimePasses(t)
  \/ \E failAt \in DashLoadFailures : loadDashboardData(failAt)
  \/ countdownTick
  \/ \E uid \in DashUsers : mountDashboard(uid)
  \/ \E uid \in DashUsers : userIdChanges(uid)
  \/ unmountDashboard

SpecTimer == InitTimer /\ [][NextTimer]_vars

\* both upload tracks of team u1 side by side: the form of a session and the
\* dashboard, a day ahead of the deadline
InitUpload ==
  /\ now = phase2Deadline - 90061000
  /\ forms = [s \in {"s1"} |-> NewSession("u1", "Pat")]
  /\ teams = [id \in {"u1"} |->
                [teamName |-> "T1", registrationId |-> "R1",
                 paymentStatus |-> "paid"]]
  /\ phase1 = <<>>
  /\ config = [published |-> FALSE]
  /\ phase2 \in {<<>>, [id \in {"u1"} |-> EarlierProposal]}
  /\ dash = NewDashboard("u1", now)
  /\ countdowns = 1
  /\ users = <<>> /\ payments = {}
  /\ InitAuthState
  /\ IdleMail /\ IdleBoard /\ IdleAdmin
  /\ uploads = StoredFiles

NextUpload ==
  \/ \E failAt \in LoadFailures : loadSubmissionData("s1", failAt)
  \/ \E input \in FormInputs : setFormData("s1", input)
  \/ \E picked \in FilePicks : handleFileChange("s1", picked)
  \/ \E outcome \in SubmitOutcomes : handleSubmit("s1", outcome)
  \/ \E failAt \in DashLoadFailures : loadDashboardData(failAt)
  \/ setBusinessProposal(ProposalFile)
  \/ \E outcome \in SubmitOutcomes : handleProposalUpload(outcome)

SpecUpload == InitUpload /\ [][NextUpload]_vars

----------------------------------------------------------------------------
(* Properties of the UserDashboard                                         *)

\* C13: no write to a team's Phase2Submission is issued at a time t >= the
\* deadline, including at t = deadline exactly and from a view that was
\* rendered last before the deadline.
C13_NoWriteFromDeadlineOn ==
  [][phase2' # phase2 => now < phase2Deadline]_vars

\* C13 witness: the stored phase-2 submission of u1 was written at the
\* deadline exactly
C13_Witness ==
  /\ "u1" \in DOMAIN phase2
  /\ phase2["u1"].submittedAt = [iso |-> phase2Deadline]
  /\ phase2["u1"].status = "pending"

\* a displayed duration none of whose components is negative
NonNegativeDuration(text) ==
  /\ DOMAIN text = {"days", "hours", "minutes", "seconds"}
  /\ \A part \in DOMAIN text : text[part] >= 0

\* C14: a countdown tick at distance = deadline - now <= 0 displays exactly
\* 'Submission Closed' and stops the timer; a tick at distance > 0 displays a
\* duration whose components are all non-negative and keeps the timer; once
\* the timer has stopped the text does not change, so no negative duration is
\* ever displayed.
C14_CountdownClosesAtZero ==
  [][/\ (dash'.timeRemaining # dash.timeRemaining \/ countdowns' # countdowns)
         => IF phase2Deadline - now <= 0
            THEN /\ dash'.timeRemaining = ClosedText
                 /\ countdowns' = countdowns - 1
            ELSE /\ NonNegativeDuration(dash'.timeRemaining)
                 /\ dash'.timeRemaining = Duration(phase2Deadline - now)
                 /\ countdowns' = countdowns
     /\ countdowns = 0 => dash'.timeRemaining = dash.timeRemaining
     /\ dash'.timeRemaining \in {BlankText, ClosedText}
          \/ NonNegativeDuration(dash'.timeRemaining)]_vars

\* C14 witness: the tick at the deadline exactly (distance = 0) has closed the
\* countdown and stopped the timer
C14_Witness ==
  /\ now = phase2Deadline
  /\ dash.timeRemaining = ClosedText
  /\ countdowns = 0

\* C15: scores are hidden from participants until publication: the Phase 1
\* status panel of the UserDashboard displays the recorded points of a
\* submission only if ResultsConfig.published is true.
C15_ScoresHiddenUntilPublished ==
  (renderPhase1Status # Null /\ HasPoints(dash.phase1Data))
    => IsPublished(config)

\* C15 witness: the dashboard of u1 displays the recorded score 80 while the
\* results are not published
C15_Witness ==
  /\ renderPhase1Status # Null
  /\ HasPoints(dash.phase1Data)
  /\ renderPhase1Status.points = 80
  /\ config = [published |-> FALSE]

\* C17: paymentStatus = paid is monotonic: no step leaves a Team record that
\* had paymentStatus = paid with the field missing or different from paid.
C17_PaidIsMonotonic ==
  [][\A id \in DOMAIN teams :
       Field(teams[id], "paymentStatus") = "paid"
         => id \in DOMAIN teams' /\ Field(teams'[id], "paymentStatus") = "paid"]_vars

\* C17 witness: the paid team of u1 has been rewritten by a member edit and
\* its record holds the members only
C17_Witness ==
  /\ "u1" \in DOMAIN teams
  /\ DOMAIN teams["u1"] = {"members"}
  /\ dash.teamData # Null
  /\ Field(dash.teamData, "paymentStatus") = "paid"
  /\ dash.success = "Team member details updated successfully"

----------------------------------------------------------------------------
(* Properties of the Scoreboard                                            *)

\* the stored flag ResultsConfig.published is false or absent
FlagFalseOrAbsent ==
  \/ config = NoDoc
  \/ "published" \notin DOMAIN config
  \/ config.published = FALSE

\* C16: the Scoreboard queries the submissions and computes ranks only after
\* it has read ResultsConfig.published = true; while the flag is false or
\* absent its score list stays empty, no rank is computed and the 'not
\* published yet' notice is shown.
C16_RanksOnlyAfterPublishedRead ==
  /\ FlagFalseOrAbsent
       => scores = <<>> /\ ~resultsPublished /\ NotPublishedNotice
  /\ scores # <<>> => resultsPublished /\ ~FlagFalseOrAbsent

\* C16 witness: the Scoreboard has finished loading against an unpublished
\* configuration while scored submissions are stored; it lists nothing and
\* shows the notice
C16_Witness ==
  /\ sbFetch = "ok" /\ ~sbLoading
  /\ config = [published |-> FALSE]
  /\ Cardinality(Scored) = NumRankTeams
  /\ scores = <<>>
  /\ NotPublishedNotice

----------------------------------------------------------------------------
(* Properties of the scoring panel                                         *)

\* this step is a handleScoreSubmit whose updateDoc was accepted
ScoreSaved ==
  /\ PanelShown
  /\ editingScore' = Null
  /\ fetching' = fetching + 1

ScoreFields == {"points", "review", "reviewedAt"}

\* C18: handleScoreSubmit on an existing submission changes only points,
\* review and reviewedAt of that one submission: every other field of the
\* record and every other submission record are unchanged, and the score,
\* review and time of the call replace whatever was stored before.
C18_ScoreWriteFrame ==
  [][ScoreSaved =>
       LET id == editingScore.id
       IN /\ DOMAIN phase1' = DOMAIN phase1
          /\ \A other \in DOMAIN phase1 \ {id} : phase1'[other] = phase1[other]
          /\ DOMAIN phase1'[id] = DOMAIN phase1[id] \cup ScoreFields
          /\ \A k \in DOMAIN phase1[id] \ ScoreFields :
               phase1'[id][k] = phase1[id][k]
          /\ phase1'[id].points = scoreData.points
          /\ phase1'[id].review = scoreData.review
          /\ phase1'[id].reviewedAt = Now]_vars

\* C18 witness: the submission of u1, scored 0 as the list still shows, has
\* been scored again with 80; its form fields and the submission of u2 are
\* in the store
C18_Witness ==
  /\ adminSuccess = "Score updated successfully"
  /\ {"u1", "u2"} \subseteq DOMAIN phase1
  /\ HasPoints(phase1["u1"]) /\ phase1["u1"].points = 80
  /\ phase1["u1"].teamName = "T1" /\ phase1["u1"].solution = "sol"
  /\ "u1" \in DOMAIN submissions
  /\ HasPoints(submissions["u1"]) /\ submissions["u1"].points = 0

\* C19: every points value the Scoring Workflow has written to a submission
\* is an integer in 0..100, never below 0, above 100 or a non-number.
C19_PointsInRange ==
  \A id \in DOMAIN phase1 :
    HasPoints(phase1[id]) => phase1[id].points \in 0..100

\* C19 witness: the score field was emptied and saved; the stored points of
\* u2 are NaN
C19_Witness ==
  /\ adminSuccess = "Score updated successfully"
  /\ HasPoints(phase1["u2"])
  /\ phase1["u2"].points = NaN

\* C19 witness, second case: 150 was typed and saved
C19_AboveRange ==
  /\ adminSuccess = "Score updated successfully"
  /\ HasPoints(phase1["u2"])
  /\ phase1["u2"].points = 150

\* C20: handleScoreSubmit is idempotent: a call with the submission id,
\* points and review of the call before it, at the same clock value, leaves
\* the stored submissions as that call left them; writing the fields of an
\* accepted call once more changes nothing.
C20_ScoreWriteIdempotent ==
  [][ScoreSaved =>
       LET id == editingScore.id
           fields == [points |-> scoreData.points, review |-> scoreData.review,
                      reviewedAt |-> Now]
       IN /\ UpdateDoc(phase1', id, fields) = phase1'
          /\ (/\ HasPoints(phase1[id])
              /\ \A k \in ScoreFields : Field(phase1[id], k) = fields[k])
               => phase1' = phase1]_vars

\* C20 witness: two calls for u2 have been accepted with no refresh of the
\* list in between, both with the 80 points and the review "good" the list
\* shows, and the store holds exactly those
C20_Witness ==
  /\ fetching = 2
  /\ adminSuccess = "Score updated successfully"
  /\ "u2" \in DOMAIN submissions
  /\ HasPoints(submissions["u2"]) /\ submissions["u2"].points = 80
  /\ phase1["u2"] = Merge(OtherSubmission,
                          [points |-> 80, review |-> "good", reviewedAt |-> Now])

----------------------------------------------------------------------------
(* Properties of publication                                               *)

\* C21: publication is a one-way latch: once ResultsConfig.published is true
\* in the store no step (publishResults again, scoring, a submission) sets it
\* back to false or removes it.
C21_PublishedIsLatch ==
  [][IsPublished(config) => IsPublished(config')]_vars

\* C21 witness: after the results were published a score has been saved and
\* the flag is still set
C21_Witness ==
  /\ IsPublished(config)
  /\ adminSuccess = "Score updated successfully"
  /\ DOMAIN phase1 = {"u1", "u2"}


\* C34: while ResultsConfig.published is true every Phase1Submission in the
\* store has a points value.
C34_PublishedImpliesAllScored ==
  IsPublished(config) => \A id \in DOMAIN phase1 : HasPoints(phase1[id])

\* C34 failing input: the results are published with the only submission,
\* that of team u2, scored; team u1 then submits for the first time and its
\* record has no points
C34_Witness ==
  /\ IsPublished(config)
  /\ adminSuccess = PublishedMessage
  /\ DOMAIN phase1 = {"u1", "u2"}
  /\ HasPoints(phase1["u2"]) /\ ~HasPoints(phase1["u1"])
  /\ DOMAIN submissions = {"u2"}

----------------------------------------------------------------------------
(* Properties of the PhaseOneForm                                          *)

LinkFields == {"youtubeLink", "updatedAt"}

InitialSubmissionErrors ==
  {"Please fill in all required fields", "Please upload your presentation file"}

\* C22: in the Submitted state handleSubmit writes only youtubeLink and
\* updatedAt of the team's Phase1Submission, every other field (points, review
\* and reviewedAt included) and every other record unchanged; with an empty
\* link it writes nothing and reports 'Please provide a YouTube video link',
\* which is none of the initial-submission errors.
C22_SubmittedWritesLinkOnly ==
  [][\A s \in DOMAIN forms :
       (forms[s].isSubmitted /\ \E outcome \in SubmitOutcomes : handleSubmit(s, outcome))
         => LET id == forms[s].userId
            IN IF forms[s].formData.youtubeLink = ""
               THEN /\ phase1' = phase1
                    /\ forms'[s].error = "Please provide a YouTube video link"
                    /\ forms'[s].error \notin InitialSubmissionErrors
               ELSE \/ phase1' = phase1 /\ forms'[s].error # ""
                    \/ /\ DOMAIN phase1' = DOMAIN phase1
                       /\ \A other \in DOMAIN phase1 \ {id} :
                            phase1'[other] = phase1[other]
                       /\ DOMAIN phase1'[id] = DOMAIN phase1[id] \cup LinkFields
                       /\ \A k \in DOMAIN phase1[id] \ LinkFields :
                            phase1'[id][k] = phase1[id][k]
                       /\ phase1'[id].youtubeLink = forms[s].formData.youtubeLink
                       /\ phase1'[id].updatedAt = Now]_vars

\* C22 witness: session s1, in the Submitted state, has stored the link "yt"
\* on the scored submission of u1, and session s2, Submitted with an empty
\* link, has been refused
C22_Witness ==
  /\ forms["s1"].isSubmitted /\ forms["s1"].formData.youtubeLink = "yt"
  /\ forms["s1"].error = ""
  /\ phase1["u1"] = Merge(EarlierSubmission, [youtubeLink |-> "yt"])
  /\ forms["s2"].isSubmitted /\ forms["s2"].formData.youtubeLink = ""
  /\ forms["s2"].error = "Please provide a YouTube video link"

\* the last instant the clock of the model reaches
LastInstant == phase2Deadline + 500 * MaxLate

\* C23: the youtubeLink of a Submitted phase-1 entry is deadline-gated: an
\* update attempted after the fixed phase-1 video deadline is not written to
\* the store.  The form names no such deadline; whatever instant up to the
\* last one of the clock it is, no link is written at that last instant.
C23_LinkFrozenAfterDeadline ==
  [][\A id \in DOMAIN phase1 :
       (id \in DOMAIN phase1' /\ phase1'[id].youtubeLink # phase1[id].youtubeLink)
         => now < LastInstant]_vars

\* C23 witness: the link of the entry u1 submitted at the first instant was
\* rewritten at the last instant of the clock
C23_Witness ==
  /\ now = LastInstant
  /\ forms["s1"].isSubmitted /\ forms["s1"].error = ""
  /\ phase1["u1"].youtubeLink = "yt2"
  /\ phase1["u1"].updatedAt = [iso |-> LastInstant]
  /\ phase1["u1"].submittedAt = [iso |-> phase2Deadline - 90061000]

\* the form of a session holds valid input for an initial submission
ValidInput(f) ==
  /\ \A k \in {"collegeName", "whatsappNumber", "productDescription", "solution"} :
       f.formData[k] # ""
  /\ f.file # Null
  /\ f.file.type = PptxType

\* C24: NotStarted -> Submitted happens only with valid input: handleSubmit
\* of a session that is not submitted creates the record and sets isSubmitted
\* only if collegeName, whatsappNumber, productDescription and solution are
\* non-empty and the chosen file has the .pptx MIME type; otherwise no record
\* is written, the session stays not submitted and an error is set.  A file
\* of another MIME type is never taken as the chosen file.
C24_SubmitOnlyWithValidInput ==
  [][\A s \in DOMAIN forms :
       /\ (~forms[s].isSubmitted /\ \E outcome \in SubmitOutcomes : handleSubmit(s, outcome))
            => IF ValidInput(forms[s])
               THEN \/ /\ forms'[s].isSubmitted
                       /\ phase1'[forms[s].userId].fileUrl
                            = DownloadURL(forms[s].userId, forms[s].file)
                    \/ /\ phase1' = phase1 /\ ~forms'[s].isSubmitted
                       /\ forms'[s].error # ""
               ELSE /\ phase1' = phase1
                    /\ ~forms'[s].isSubmitted
                    /\ forms'[s].error # ""
       /\ forms'[s].file # Null => forms'[s].file.type = PptxType]_vars

\* C24 witness: session s1 has created the record of u1 from valid input;
\* session s2, with the solution left empty, was refused and is not submitted
C24_Witness ==
  /\ forms["s1"].isSubmitted /\ ValidInput(forms["s1"])
  /\ "u1" \in DOMAIN phase1 /\ ~HasPoints(phase1["u1"])
  /\ phase1["u1"].productDescription = forms["s1"].formData.productDescription
  /\ ~forms["s2"].isSubmitted /\ forms["s2"].formData.solution = ""
  /\ forms["s2"].error = "Please fill in all required fields"

----------------------------------------------------------------------------
(* Properties of the two upload tracks                                     *)

\* the calls that come before the metadata write
BeforeWrite == {"uploadFailed", "urlFailed"}

\* C25: upload-then-write is a hard sequence in both tracks: a submission
\* record is written by PhaseOneForm.handleSubmit or by
\* UserDashboard.handleProposalUpload only after the file upload and the URL
\* retrieval have succeeded, and it carries the URL of that upload; when the
\* upload or the URL retrieval fails the record is not written.
C25_UploadThenWrite ==
  [][/\ \A id \in DOMAIN phase1' :
          (id \notin DOMAIN phase1 \/ phase1'[id].fileUrl # phase1[id].fileUrl)
            => phase1'[id].fileUrl \in uploads'
     /\ \A id \in DOMAIN phase2' :
          (id \notin DOMAIN phase2 \/ phase2'[id] # phase2[id])
            => phase2'[id].proposalUrl \in uploads'
     /\ \A s \in DOMAIN forms, outcome \in BeforeWrite :
          (~forms[s].isSubmitted /\ handleSubmit(s, outcome))
            => phase1' = phase1 /\ forms'[s].error # ""
     /\ \A outcome \in BeforeWrite :
          handleProposalUpload(outcome)
            => phase2' = phase2 /\ dash'.error # ""]_vars

\* C25 witness: both tracks have written their record with the URL of a
\* stored file, the phase-2 one after an upload that was stored without a
\* record (the dashboard has reported a failure)
C25_Witness ==
  /\ "u1" \in DOMAIN phase1 /\ phase1["u1"].fileUrl \in uploads
  /\ forms["s1"].isSubmitted
  /\ "u1" \in DOMAIN phase2
  /\ phase2["u1"].proposalUrl = ProposalURL("u1", ProposalFile)
  /\ phase2["u1"].proposalUrl \in uploads
  /\ dash.error = "Failed to upload business proposal"

----------------------------------------------------------------------------
(* Properties of failing persistence                                       *)

\* C26: a persistence failure never advances in-memory state past the failed
\* step: when the store call of UserDashboard.handleMemberUpdate fails, an
\* error is reported and the view's teamMembers are the same as before the
\* operation.
C26_FailureKeepsViewState ==
  [][\A index \in 1..2, data \in MemberEdits :
       handleMemberUpdate(index, data, "failed")
         => /\ dash'.error # ""
            /\ dash'.teamMembers = dash.teamMembers]_vars

\* C26 witness: the write of a member edit was rejected and reported, the
\* dashboard shows member 1 as "Zed" and the store still holds "Ann"
C26_Witness ==
  /\ dash.error = "Failed to update team member details"
  /\ Len(dash.teamMembers) = 2 /\ dash.teamMembers[1].name = "Zed"
  /\ "members" \in DOMAIN teams["u1"]
  /\ teams["u1"].members[1].name = "Ann"
  /\ teams["u1"].paymentStatus = "paid"


\* C35: a member edit that is stored changes only the members list of the
\* Team record: every other field keeps its value, the list keeps its length,
\* every other member is unchanged and the member at index changes in the
\* given fields only.
C35_MemberEditFrame ==
  [][\A index \in 1..2, data \in MemberEdits :
       handleMemberUpdate(index, data, "ok")
         => LET id == dash.userId
                before == teams[id]
                after == teams'[id]
            IN /\ DOMAIN after = DOMAIN before \cup {"members"}
               /\ \A k \in DOMAIN before \ {"members"} : after[k] = before[k]
               /\ Len(after.members) = Len(dash.teamMembers)
               /\ \A m \in DOMAIN after.members :
                    m # index => after.members[m] = dash.teamMembers[m]
               /\ \A k \in DOMAIN dash.teamMembers[index] \ DOMAIN data :
                    after.members[index][k] = dash.teamMembers[index][k]]_vars

\* C35 failing input: the second member of team T1 was renamed; the stored
\* record holds the two members, the first unchanged, and no teamName or
\* registrationId any more
C35_Witness ==
  /\ dash # Null
  /\ dash.success = "Team member details updated successfully"
  /\ Field(dash.teamData, "teamName") = "T1"
  /\ "teamName" \notin DOMAIN teams["u1"]
  /\ "registrationId" \notin DOMAIN teams["u1"]
  /\ Len(teams["u1"].members) = 2
  /\ teams["u1"].members[1] = DashMember("Ann")
  /\ teams["u1"].members[2].name = "Zed"

----------------------------------------------------------------------------
(* Properties of the phase-2 record                                        *)

Phase2Fields == {"proposalUrl", "youtubeVideoUrl", "submittedAt", "status"}

\* C27: a phase-2 submission merges onto the prior record: every write of
\* handleProposalUpload sets proposalUrl, youtubeVideoUrl, submittedAt and
\* status of the team's Phase2Submission and leaves every other field stored
\* there unchanged; the record is never replaced wholesale and no other
\* team's record is touched.
C27_ProposalMerges ==
  [][phase2' # phase2 =>
       LET id == dash.userId
           prior == IF id \in DOMAIN phase2 THEN phase2[id] ELSE <<>>
       IN /\ DOMAIN phase2' = DOMAIN phase2 \cup {id}
          /\ \A other \in DOMAIN phase2 \ {id} : phase2'[other] = phase2[other]
          /\ DOMAIN phase2'[id] = DOMAIN prior \cup Phase2Fields
          /\ \A k \in DOMAIN prior \ Phase2Fields : phase2'[id][k] = prior[k]
          /\ phase2'[id].proposalUrl = ProposalURL(id, dash.businessProposal)
          /\ phase2'[id].youtubeVideoUrl = dash.youtubeVideoUrl
          /\ phase2'[id].submittedAt = Now
          /\ phase2'[id].status = "pending"]_vars

\* C27 witness: u1 has uploaded a new proposal before the deadline over the
\* reviewed one; the remarks of the prior record are kept and the record of
\* team u2 is as it was
C27_Witness ==
  /\ now < phase2Deadline
  /\ DOMAIN phase2 = {"u1", "u2"}
  /\ phase2["u1"].proposalUrl = ProposalURL("u1", ProposalFile)
  /\ phase2["u1"].status = "pending"
  /\ phase2["u1"].remarks = "good"
  /\ phase2["u2"] = OtherProposal

----------------------------------------------------------------------------
(* Properties of the countdown's life                                      *)

\* C28: the countdown timer is stopped on teardown: before the deadline no
\* interval is running while no UserDashboard is mounted, and a mounted view
\* has at most one interval running.
C28_TimerStoppedOnTeardown ==
  now < phase2Deadline
    => countdowns <= (IF dash = Null THEN 0 ELSE 1)

\* C28 witness: a second before the deadline no dashboard is mounted and the
\* interval of the unmounted one is still running
C28_Witness ==
  /\ now = phase2Deadline - 1000
  /\ dash = Null
  /\ countdowns = 1

\* C28 witness, second case: the mounted view, now of u2, has two intervals
C28_TwoIntervals ==
  /\ now < phase2Deadline
  /\ dash # Null /\ dash.userId = "u2"
  /\ countdowns = 2

====
